---- MODULE Spec2Model ----
(***************************************************************************)
(* Model of the AI-Newz ingestion and curation pipeline.                   *)
(*                                                                         *)
(*   SpecCuration : the curation block of generate_newsletter              *)
(*                  (app/api/newsletter.py), run against an Article Store  *)
(*                  that answers the PostgREST query the block builds.     *)
(*   SpecSave     : SupabaseRSSService.save_article against the store's    *)
(*                  unique-URL constraint.                                 *)
(*   SpecFetch    : one feed ingested by RSSService.fetch_and_process_     *)
(*                  source (SQLAlchemy session) and by the /fetch endpoint *)
(*                  fetch_rss_feeds (REST store).                          *)
(*   SpecBatch    : a batch over two sources, by RSSService.fetch_all_     *)
(*                  sources (asyncio tasks on one session) and by          *)
(*                  fetch_rss_feeds (one source after the other).          *)
(*   SpecAnalysis : one call of fetch_rss_feed, extract_images_from_       *)
(*                  content, calculate_reading_time, _calculate_quality_   *)
(*                  score, title_sim or _calculate_similarity.             *)
(*                                                                         *)
(* Numbers with a fractional part in the code (quality scores, the title   *)
(* similarity threshold) are kept in hundredths.                           *)
(***************************************************************************)
EXTENDS Integers, Sequences, FiniteSets, TLC

VARIABLES
    store,              \* Article Store rows of the articles table, in insertion order
    request,            \* the NewsletterGenerateRequest being served
    pc,                 \* position of the handler: "idle" | "done"
    articles,           \* the rows the store answered with (response.json())
    curated_articles,   \* the Curated Batch handed to the Composer
    store_failed,       \* the curation block ended in its except branch
    response,           \* what generate_newsletter returns to its caller
    saves,              \* save_article calls so far: [url, answer, returned]
    session,            \* SQLAlchemy session: articles added and not yet flushed
    feed,               \* the parsed feed of the source being ingested
    fetcher,            \* which code ingests the feed: "orm" | "rest"
    fpc,                \* position of the fetch: "start" | "entries" | "failed" | "done"
    counters,           \* the fetch's local counters and the index of the next entry
    corpus,             \* the Article Store as the fetch or the first save found it
    summary,            \* the fetch result summary, None until the fetch returns
    feeds,              \* batch fetch: the parsed feed of each active source
    tasks,              \* batch fetch: each source's fetch, its position and counters
    call,               \* content analysis: the function called and its arguments
    result              \* content analysis: what the call gave, None until it returns

vars == <<store, request, pc, articles, curated_articles, store_failed, response,
          saves, session, feed, fetcher, fpc, counters, corpus, summary,
          feeds, tasks, call, result>>

curationVars == <<request, pc, articles, curated_articles, store_failed, response>>
batchVars == <<feeds, tasks>>
analysisVars == <<call, result>>
ingestVars == <<saves, session, feed, fetcher, fpc, counters, corpus, summary,
                batchVars, analysisVars>>

(***************************************************************************)
(* Bounds of the model.                                                    *)
(***************************************************************************)
MaxPool == 3        \* articles in the store of a curation run; also the
                    \* largest rss_limit and per_source_cap tried
MaxSaves == 3       \* save_article calls in one behaviour
MaxFeed == 3        \* entries in one feed
MaxBatchFeed == 2   \* entries in one feed of a fetch_all_sources batch
MaxRestFeed == 1    \* entries in one feed of a fetch_rss_feeds batch
MaxItems == 2       \* entries in the document fetch_rss_feed is given
MaxWords == 12500   \* words in the text calculate_reading_time is given
MaxWordCount == 2100 \* word_count given to _calculate_quality_score
MaxImgs == 2        \* <img> elements on the article page _fetch_article_image reads
MaxContentImgs == 5 \* <img> elements in the markup detect_content_type is given

\* A nullable value (JSON null, Python None, SQL NULL): None, or Some(v)
None == <<>>
Some(v) == <<v>>
ValueOf(o) == o[1]

Min(a, b) == IF a <= b THEN a ELSE b

Range(s) == {s[i] : i \in DOMAIN s}

(***************************************************************************)
(* Titles.  A title is a Python str; TLC's strings are atomic, so Chars    *)
(* spells each title of the model out as its characters, and split() and   *)
(* lower() work on those.                                                  *)
(***************************************************************************)
Chars(t) ==
    IF t = "AI Breakthrough in Robotics" THEN
        <<"A","I"," ","B","r","e","a","k","t","h","r","o","u","g","h"," ","i","n"," ","R","o","b","o","t","i","c","s">>
    ELSE
    IF t = "Robotics AI Breakthrough" THEN
        <<"R","o","b","o","t","i","c","s"," ","A","I"," ","B","r","e","a","k","t","h","r","o","u","g","h">>
    ELSE
    IF t = "robotics  ai breakthrough" THEN
        <<"r","o","b","o","t","i","c","s"," "," ","a","i"," ","b","r","e","a","k","t","h","r","o","u","g","h">>
    ELSE
    IF t = "Story 1" THEN
        <<"S","t","o","r","y"," ","1">>
    ELSE
    IF t = "Story 2" THEN
        <<"S","t","o","r","y"," ","2">>
    ELSE
    IF t = "Story 3" THEN
        <<"S","t","o","r","y"," ","3">>
    ELSE
    IF t = "Story 4" THEN
        <<"S","t","o","r","y"," ","4">>
    ELSE
    IF t = "Story 5" THEN
        <<"S","t","o","r","y"," ","5">>
    ELSE
    IF t = "Story 6" THEN
        <<"S","t","o","r","y"," ","6">>
    ELSE
    IF t = "  " THEN
        <<" "," ">>
    ELSE <<>>

StoryTitles == <<"Story 1", "Story 2", "Story 3", "Story 4", "Story 5", "Story 6">>

UpperLetters == <<"A","B","C","D","E","F","G","H","I","J","K","L","M",
                  "N","O","P","Q","R","S","T","U","V","W","X","Y","Z">>
LowerLetters == <<"a","b","c","d","e","f","g","h","i","j","k","l","m",
                  "n","o","p","q","r","s","t","u","v","w","x","y","z">>

\* str.lower(), character by character
LowerChar(c) ==
    IF \E i \in DOMAIN UpperLetters : UpperLetters[i] = c
    THEN LowerLetters[CHOOSE i \in DOMAIN UpperLetters : UpperLetters[i] = c]
    ELSE c

Lower(cs) == [i \in DOMAIN cs |-> LowerChar(cs[i])]

\* str.split() with no argument: the maximal runs of non-whitespace characters
RECURSIVE SplitFrom(_, _, _)
SplitFrom(cs, i, word) ==
    IF i > Len(cs)
    THEN IF word = <<>> THEN <<>> ELSE <<word>>
    ELSE IF cs[i] = " "
         THEN IF word = <<>>
              THEN SplitFrom(cs, i + 1, <<>>)
              ELSE <<word>> \o SplitFrom(cs, i + 1, <<>>)
         ELSE SplitFrom(cs, i + 1, Append(word, cs[i]))

Split(cs) == SplitFrom(cs, 1, <<>>)

Titles == {"AI Breakthrough in Robotics", "Robotics AI Breakthrough",
           "robotics  ai breakthrough", "", "  "} \cup Range(StoryTitles)

\* set(t.lower().split()), for every title of the model
TitleWords == [t \in Titles |-> Range(Split(Lower(Chars(t))))]

WordSet(t) == TitleWords[t]

(***************************************************************************)
(* title_sim: Jaccard similarity over lowercase tokens, as the fraction    *)
(* <<numerator, denominator>>; 0.0 is <<0, 1>>.                            *)
(***************************************************************************)
title_sim(t1, t2) ==
    IF t1 = "" \/ t2 = ""
    THEN <<0, 1>>
    ELSE LET w1 == WordSet(t1)
             w2 == WordSet(t2)
         IN  IF w1 = {} \/ w2 = {}
             THEN <<0, 1>>
             ELSE <<Cardinality(w1 \cap w2), Cardinality(w1 \cup w2)>>

\* The comparison written sim > threshold
SimExceeds(sim, threshold) == sim[1] * 100 > threshold * sim[2]

\* sim >= threshold, the threshold in hundredths
SimAtLeast(sim, threshold) == sim[1] * 100 >= threshold * sim[2]

(***************************************************************************)
(* The Article Store (the articles table, app/models/article.py).          *)
(* published_at is a day number or NULL; the store compares it as a        *)
(* timestamp and serves it as an ISO-8601 string.                          *)
(***************************************************************************)
Now == 12           \* the day datetime.now(timezone.utc) falls on

CurrentUser == "u1" \* current_user["id"]

\* The columns the curation query selects (its "select" parameter)
SelectColumns == {"id", "title", "url", "summary", "author", "published_at",
                  "rss_source_id", "quality_score", "word_count", "tags",
                  "image_url", "category"}

\* A timestamp as PostgREST serves it: zero-padded decimal fields, here two digits
IsoFormat(day) == <<day \div 10, day % 10>>

\* Python's str < str: lexicographic by character
RECURSIVE StrLess(_, _)
StrLess(s, t) ==
    IF t = <<>> THEN FALSE
    ELSE IF s = <<>> THEN TRUE
    ELSE IF Head(s) # Head(t) THEN Head(s) < Head(t)
    ELSE StrLess(Tail(s), Tail(t))

\* One row of the response: the selected columns of a stored article
Row(a) ==
    [id |-> a.id, title |-> a.title, url |-> a.url, summary |-> a.summary,
     author |-> a.author,
     published_at |-> IF a.published_at = None THEN None
                      ELSE Some(IsoFormat(ValueOf(a.published_at))),
     rss_source_id |-> a.rss_source_id, quality_score |-> a.quality_score,
     word_count |-> a.word_count, tags |-> a.tags, image_url |-> a.image_url,
     category |-> a.category]

\* The params without the image_url filter of require_image
QueryParamsWithoutImage(req) ==
    [is_active     |-> TRUE,
     limit         |-> req.rss_limit,
     rss_source_id |-> IF req.source_ids # {} THEN Some(req.source_ids) ELSE None,
     category      |-> IF req.categories # {} THEN Some(req.categories) ELSE None,
     quality_score |-> Some(req.min_quality),
     word_count    |-> IF req.min_word_count # 0 THEN Some(req.min_word_count) ELSE None,
     image_url     |-> None,
     published_at  |-> IF req.since_days # 0 /\ req.since_days > 0
                       THEN Some(Now - req.since_days) ELSE None,
     user_id       |-> CurrentUser]

(***************************************************************************)
(* The query generate_newsletter sends: params built from the request.     *)
(* A parameter the code does not set is None.                              *)
(***************************************************************************)
QueryParams(req) ==
    [is_active     |-> TRUE,
     limit         |-> req.rss_limit,
     rss_source_id |-> IF req.source_ids # {} THEN Some(req.source_ids) ELSE None,
     category      |-> IF req.categories # {} THEN Some(req.categories) ELSE None,
     \* min_quality is a float field of the request, never None
     quality_score |-> Some(req.min_quality),
     word_count    |-> IF req.min_word_count # 0 THEN Some(req.min_word_count) ELSE None,
     image_url     |-> IF req.require_image THEN Some("not.is.null") ELSE None,
     published_at  |-> IF req.since_days # 0 /\ req.since_days > 0
                       THEN Some(Now - req.since_days) ELSE None,
     user_id       |-> CurrentUser]

\* The rows a query matches: every filter given is a conjunct; a comparison
\* with a NULL column is not true
Matches(a, params) ==
    /\ a.is_active = params.is_active
    /\ a.user_id = params.user_id
    /\ params.rss_source_id # None => a.rss_source_id \in ValueOf(params.rss_source_id)
    /\ params.category # None => a.category \in ValueOf(params.category)
    /\ params.quality_score # None => a.quality_score >= ValueOf(params.quality_score)
    /\ params.word_count # None => a.word_count >= ValueOf(params.word_count)
    /\ params.image_url # None => a.image_url # None
    /\ params.published_at # None =>
           (a.published_at # None
            /\ ValueOf(a.published_at) >= ValueOf(params.published_at))

\* order=published_at.desc: a strictly before b (NULLs sort first in a
\* descending order); rows with equal published_at come in any order
OrderedBefore(a, b) ==
    IF a.published_at = None THEN b.published_at # None
    ELSE b.published_at # None /\ ValueOf(a.published_at) > ValueOf(b.published_at)

\* A slice that keeps one element too many
TakeOneMore(s, n) == SubSeq(s, 1, Min(n + 1, Len(s)))

\* Python's s[:n] and SQL's LIMIT n
Take(s, n) == SubSeq(s, 1, Min(n, Len(s)))

\* Every answer the store can give: the matching rows in an order that
\* respects published_at descending, cut to the limit
QueryResults(rows, params) ==
    LET idx == {i \in DOMAIN rows : Matches(rows[i], params)}
        n == Cardinality(idx)
        orders == {o \in [1..n -> idx] :
                      /\ \A i, j \in 1..n : i # j => o[i] # o[j]
                      /\ \A i, j \in 1..n :
                            i < j => ~OrderedBefore(rows[o[j]], rows[o[i]])}
    IN  {Take([i \in 1..n |-> Row(rows[o[i]])], params.limit) : o \in orders}

(***************************************************************************)
(* The curation steps of generate_newsletter, on the rows of the response. *)
(***************************************************************************)
\* by_source.get(sid, 0)
CountOf(by_source, sid) == IF sid \in DOMAIN by_source THEN by_source[sid] ELSE 0

\* The per-source cap loop: by_source counts what was kept of each source
RECURSIVE CapWalk(_, _, _, _)
CapWalk(rows, by_source, filtered, cap) ==
    IF rows = <<>> THEN filtered
    ELSE LET a == Head(rows)
             sid == a.rss_source_id
             count == CountOf(by_source, sid)
         IN  IF count < cap
             THEN CapWalk(Tail(rows),
                          [s \in DOMAIN by_source \cup {sid} |->
                              IF s = sid THEN count + 1 ELSE by_source[s]],
                          Append(filtered, a), cap)
             ELSE CapWalk(Tail(rows), by_source, filtered, cap)

\* The cap loop with its test written count <= cap
PerSourceCapInclusive(rows, cap) ==
    IF cap # 0 THEN CapWalk(rows, <<>>, <<>>, cap + 1) ELSE rows

\* if request.per_source_cap: ... articles = filtered
PerSourceCap(rows, cap) ==
    IF cap # 0 THEN CapWalk(rows, <<>>, <<>>, cap) ELSE rows

\* The dedupe loop: an article is skipped when its title is similar enough
\* to the title of one already in deduped
RECURSIVE DedupeWalk(_, _, _)
DedupeWalk(rows, deduped, threshold) ==
    IF rows = <<>> THEN deduped
    ELSE LET a == Head(rows)
         IN  IF \E i \in DOMAIN deduped :
                    SimAtLeast(title_sim(a.title, deduped[i].title), threshold)
             THEN DedupeWalk(Tail(rows), deduped, threshold)
             ELSE DedupeWalk(Tail(rows), Append(deduped, a), threshold)

DedupeTitles(rows, threshold) == DedupeWalk(rows, <<>>, threshold)

\* has_image(a): the rows carry no has_images column (it is not selected),
\* so this is the truth value of image_url
has_image(a) ==
    IF "has_images" \in DOMAIN a /\ a["has_images"] = Some(TRUE) THEN 1
    ELSE IF a.image_url # None /\ ValueOf(a.image_url) # "" THEN 1 ELSE 0

\* The sort key without its first component
SortKeyWithoutImage(x) ==
    <<0,
      x.quality_score,
      IF x.published_at = None THEN <<>> ELSE ValueOf(x.published_at)>>

\* The sort key: (has_image(x), quality_score or 0, published_at or "")
SortKey(x) ==
    <<has_image(x),
      x.quality_score,
      IF x.published_at = None THEN <<>> ELSE ValueOf(x.published_at)>>

\* Python's tuple comparison k1 < k2
KeyLess(k1, k2) ==
    \/ k1[1] < k2[1]
    \/ k1[1] = k2[1] /\ k1[2] < k2[2]
    \/ k1[1] = k2[1] /\ k1[2] = k2[2] /\ StrLess(k1[3], k2[3])

\* list.sort(key=..., reverse=True): descending, and stable (rows with equal
\* keys keep their order)
RECURSIVE InsertDesc(_, _)
InsertDesc(sorted, x) ==
    IF sorted = <<>> THEN <<x>>
    ELSE IF KeyLess(SortKey(Head(sorted)), SortKey(x))
         THEN <<x>> \o sorted
         ELSE <<Head(sorted)>> \o InsertDesc(Tail(sorted), x)

RECURSIVE SortWalk(_, _)
SortWalk(rows, sorted) ==
    IF rows = <<>> THEN sorted
    ELSE SortWalk(Tail(rows), InsertDesc(sorted, Head(rows)))

SortRanked(rows) == SortWalk(rows, <<>>)

DefaultIncludeFields == <<"title", "summary", "url", "tags">>

AlwaysKept == {"id", "rss_source_id", "published_at"}

\* include_set = set(request.include_fields or [defaults])
IncludeSet(include_fields) ==
    IF include_fields # <<>> THEN Range(include_fields)
    ELSE Range(DefaultIncludeFields)

\* {k: v for k, v in a.items() if k in include_set or k in ("id", ...)}
ProjectRow(a, include_set) ==
    [k \in {c \in DOMAIN a : c \in include_set \/ c \in AlwaysKept} |-> a[k]]

\* Lines 162-211: cap, dedupe, sort, slice to rss_limit, project
Curate(rows, req) ==
    LET capped == PerSourceCap(rows, req.per_source_cap)
        deduped == DedupeTitles(capped, req.dedupe_title_similarity)
        ranked == SortRanked(deduped)
        kept == Take(ranked, req.rss_limit)
        include_set == IncludeSet(req.include_fields)
    IN  [i \in DOMAIN kept |-> ProjectRow(kept[i], include_set)]

(***************************************************************************)
(* generate_newsletter (POST /generate).                                   *)
(***************************************************************************)
NewsletterId == "newsletter-1"      \* str(uuid.uuid4())

\* The PATCH of lines 288-298 on the articles whose request reached the store
MarkUsed(rows, ids) ==
    [i \in DOMAIN rows |->
        IF rows[i].id \in ids
        THEN [rows[i] EXCEPT !.is_used_in_newsletter = TRUE,
                             !.newsletter_id = Some(NewsletterId)]
        ELSE rows[i]]

ErrorResponse ==
    [status |-> 500, success |-> FALSE, newsletter_id |-> None,
     included_articles |-> None]

\* Lines 217-312: compose, optionally save and mark the articles used, answer.
\* A PATCH that fails is not noticed (no raise_for_status; an exception ends
\* the loop with a warning), so any part of the batch may end up marked.
Respond(rows, curated, failed) ==
    /\ articles' = rows
    /\ curated_articles' = curated
    /\ store_failed' = failed
    /\ pc' = "done"
    /\ \E composer_ok \in BOOLEAN :
          IF ~composer_ok
          THEN /\ response' = ErrorResponse
               /\ store' = store
          ELSE \E saved \in (IF request.save_newsletter THEN BOOLEAN ELSE {FALSE}) :
               \E patched \in SUBSET (IF saved THEN {curated[i].id : i \in DOMAIN curated}
                                      ELSE {}) :
                  /\ store' = MarkUsed(store, patched)
                  /\ response' =
                        [status |-> 200, success |-> TRUE,
                         newsletter_id |-> IF saved THEN Some(NewsletterId) ELSE None,
                         included_articles |-> IF curated # <<>> THEN Some(curated)
                                               ELSE None]

\* The handler, lines 108-319.  With use_rss the curation block either gets
\* its query answered and curates the rows, or ends in its except branch,
\* which empties the batch; an exception raised anywhere in the block ends
\* there, the construction of the store client at line 115 included.  The
\* answered branch presumes that SupabaseRSSService takes the
\* use_service_role argument line 115 passes.
generate_newsletter ==
    /\ pc = "idle"
    /\ \/ /\ ~request.use_rss
          /\ Respond(<<>>, <<>>, FALSE)
       \/ /\ request.use_rss
          /\ \E rows \in QueryResults(store, QueryParams(request)) :
                LET curated == Curate(rows, request)
                IN  Respond(rows, curated, FALSE)
       \/ /\ request.use_rss
          /\ Respond(<<>>, <<>>, TRUE)
    /\ UNCHANGED <<request, ingestVars>>

(***************************************************************************)
(* The inputs of the curation model.                                       *)
(*                                                                         *)
(* A stored article is the base article changed in at most one column; a   *)
(* store holds up to MaxPool of them, the stores of MaxPool articles being *)
(* made of the articles that the base request's query matches.  The        *)
(* store's own order never shows in an answer (the query orders by         *)
(* published_at and ties come back in any order), so one store per         *)
(* multiset of articles is enough.                                         *)
(***************************************************************************)
Urls == <<"https://example.com/a1", "https://example.com/a2",
          "https://example.com/a3", "https://example.com/a4",
          "https://example.com/a5", "https://example.com/a6">>

ImageUrl == "https://example.com/i.png"

AutoTitle == "<Story n>"    \* stands for "Story <id>" until the id is known

BaseArticle ==
    [rss_source_id |-> 1, title |-> AutoTitle, quality_score |-> 50,
     word_count |-> 100, image_url |-> Some(ImageUrl), published_at |-> Some(11),
     category |-> "technology", is_active |-> TRUE, user_id |-> CurrentUser]

\* The other values tried for each column
ArticleSpace ==
    [rss_source_id |-> {1, 2},
     title |-> {AutoTitle, "AI Breakthrough in Robotics", "Robotics AI Breakthrough",
                "robotics  ai breakthrough", ""},
     quality_score |-> {5, 50, 90},
     word_count |-> {5, 100},
     image_url |-> {None, Some(ImageUrl)},
     published_at |-> {None, Some(8), Some(11), Some(12)},
     category |-> {"technology", "general"},
     is_active |-> BOOLEAN,
     user_id |-> {CurrentUser}]

\* base with one field f set to each value of space[f]
OneChanged(base, space) ==
    UNION {{[base EXCEPT ![f] = v] : v \in space[f]} : f \in DOMAIN space}

ArticleShapes == OneChanged(BaseArticle, ArticleSpace)

\* A set as a sequence, in some fixed order
RECURSIVE SetToSeq(_)
SetToSeq(S) ==
    IF S = {} THEN <<>>
    ELSE LET x == CHOOSE y \in S : TRUE IN <<x>> \o SetToSeq(S \ {x})

ShapeSeq == SetToSeq(ArticleShapes)

\* The article stored at position i with shape a
StoredArticle(a, i) ==
    [id |-> i, url |-> Urls[i],
     title |-> IF a.title = AutoTitle THEN StoryTitles[i] ELSE a.title,
     summary |-> "summary", author |-> "author", tags |-> <<>>,
     published_at |-> a.published_at, rss_source_id |-> a.rss_source_id,
     quality_score |-> a.quality_score, word_count |-> a.word_count,
     image_url |-> a.image_url, category |-> a.category,
     is_active |-> a.is_active, user_id |-> a.user_id,
     is_used_in_newsletter |-> FALSE, newsletter_id |-> None]

StoreOf(shapes) == [i \in DOMAIN shapes |-> StoredArticle(shapes[i], i)]

BaseRequest ==
    [use_rss |-> TRUE, since_days |-> 3, rss_limit |-> MaxPool, min_quality |-> 10,
     source_ids |-> {}, categories |-> {}, require_image |-> FALSE,
     min_word_count |-> 10, dedupe_title_similarity |-> 85,
     include_fields |-> DefaultIncludeFields, per_source_cap |-> MaxPool,
     save_newsletter |-> FALSE]

\* The shapes the base request's query matches
MatchingShapes == {i \in DOMAIN ShapeSeq : Matches(ShapeSeq[i], QueryParams(BaseRequest))}

\* Stores of fewer than MaxPool articles of any shape, and stores of MaxPool
\* articles that all reach the curation steps of the base request
Pools ==
    LET ascending(S) == {q \in S : \A i, j \in DOMAIN q : i < j => q[i] <= q[j]}
        picks == ascending(UNION {[1..n -> DOMAIN ShapeSeq] : n \in 0..(MaxPool - 1)})
                 \cup ascending([1..MaxPool -> MatchingShapes])
    IN  {StoreOf([i \in DOMAIN p |-> ShapeSeq[p[i]]]) : p \in picks}

\* Scenario 3 of the specification: five articles, two of them with an image
Scenario3Pool ==
    LET noImage == [BaseArticle EXCEPT !.image_url = None]
    IN  StoreOf(<<noImage, BaseArticle, noImage, BaseArticle, noImage>>)

\* The other values tried for each field of the request
RequestSpace ==
    [use_rss |-> BOOLEAN, since_days |-> {0, 3}, rss_limit |-> 1..MaxPool,
     min_quality |-> {0, 10, 60}, source_ids |-> {{}, {1}, {2}},
     categories |-> {{}, {"technology"}}, require_image |-> BOOLEAN,
     min_word_count |-> {0, 10}, dedupe_title_similarity |-> {0, 70, 85, 100},
     include_fields |-> {<<>>, DefaultIncludeFields, <<"title", "quality_score">>},
     per_source_cap |-> 1..MaxPool, save_newsletter |-> BOOLEAN]

\* The base request changed in one field; with the cap at 1 and each limit;
\* with the cap at 1 and the threshold at 0.70
Requests ==
    OneChanged(BaseRequest, RequestSpace)
    \cup {[BaseRequest EXCEPT !.rss_limit = l, !.per_source_cap = 1] : l \in 1..MaxPool}
    \cup {[BaseRequest EXCEPT !.per_source_cap = 1, !.dedupe_title_similarity = 70]}

(***************************************************************************)
(* Ingestion.  The articles table carries a unique index on url            *)
(* (app/models/article.py); the REST store answers an insert that breaks   *)
(* it with 409, the SQLAlchemy session raises IntegrityError at the flush. *)
(* An ingested row is kept as [id, url, title, is_active].                 *)
(***************************************************************************)
\* The store's answers to POST /rest/v1/articles
Created == 201
Conflict == 409
ServerError == 500      \* any error status other than 409
NoResponse == 0         \* the request raised before an answer arrived

UrlsOf(rows) == {rows[i].url : i \in DOMAIN rows}

\* The row the store creates for posted or flushed article data
InsertedRow(rows, data) ==
    [id |-> Len(rows) + 1, url |-> data.url, title |-> data.title,
     is_active |-> data.is_active]

\* Every way one POST can end: the answer, and the rows afterwards.  A
\* request that raised may or may not have reached the store.
PostOutcomes(rows, data) ==
    LET inserted == Append(rows, InsertedRow(rows, data))
    IN  IF data.url \in UrlsOf(rows)
        THEN {[answer |-> Conflict, rows |-> rows],
              [answer |-> ServerError, rows |-> rows],
              [answer |-> NoResponse, rows |-> rows]}
        ELSE {[answer |-> Created, rows |-> inserted],
              [answer |-> ServerError, rows |-> rows],
              [answer |-> NoResponse, rows |-> rows],
              [answer |-> NoResponse, rows |-> inserted]}

\* save_article with the 409 branch reporting failure
SaveReturnsConflictAsError(answer) == answer = Created

\* What save_article returns: True after raise_for_status() passed and after
\* a 409, False after any other error status and after any other exception
SaveReturns(answer) == answer = Created \/ answer = Conflict

SaveRecord(data, outcome) ==
    [url |-> data.url, answer |-> outcome.answer,
     returned |-> SaveReturns(outcome.answer)]

\* The article data a caller posts
ArticleData ==
    {[url |-> Urls[u], title |-> StoryTitles[u], is_active |-> TRUE] : u \in 1..2}

\* SupabaseRSSService.save_article, one call
save_article ==
    /\ Len(saves) < MaxSaves
    /\ \E data \in ArticleData :
       \E outcome \in PostOutcomes(store, data) :
          /\ store' = outcome.rows
          /\ saves' = Append(saves, SaveRecord(data, outcome))
    /\ UNCHANGED <<curationVars, session, feed, fetcher, fpc, counters, corpus, summary,
                   batchVars, analysisVars>>

(***************************************************************************)
(* RSSService.detect_duplicates, on the rows the session's queries see.    *)
(***************************************************************************)
TitlePrefixLen == 50

DuplicateThreshold == 80        \* 0.8

\* column ILIKE '%pattern%' on character sequences
ILike(text, pattern) ==
    LET t == Lower(text)
        p == Lower(pattern)
    IN  \E k \in 0..(Len(t) - Len(p)) : SubSeq(t, k + 1, k + Len(p)) = p

\* _calculate_similarity: word overlap of two texts, as <<numerator, denominator>>
calculate_similarity(text1, text2) ==
    IF text1 = "" \/ text2 = ""
    THEN <<0, 1>>
    ELSE LET words1 == WordSet(text1)
             words2 == WordSet(text2)
         IN  IF words1 = {} \/ words2 = {}
             THEN <<0, 1>>
             ELSE <<Cardinality(words1 \cap words2), Cardinality(words1 \cup words2)>>

\* sim > threshold, the threshold in hundredths
MoreSimilarThan(sim, threshold) == threshold * sim[2] < sim[1] * 100

\* The id of a row with the same url, else of an active row whose title
\* contains title[:50] and is more than 0.8 similar, else None
detect_duplicates(rows, article_url, title) ==
    LET existing == {i \in DOMAIN rows : rows[i].url = article_url}
        similar_articles ==
            {i \in DOMAIN rows :
                /\ ILike(Chars(rows[i].title), Take(Chars(title), TitlePrefixLen))
                /\ rows[i].is_active}
        matching ==
            {i \in similar_articles :
                MoreSimilarThan(calculate_similarity(title, rows[i].title),
                                DuplicateThreshold)}
    IN  IF existing # {} THEN Some(rows[CHOOSE i \in existing : TRUE].id)
        ELSE IF matching # {} THEN Some(rows[CHOOSE i \in matching : TRUE].id)
        ELSE None

(***************************************************************************)
(* One source's feed ingested.  An entry is [link, title, bad]; handling a *)
(* bad entry raises inside the per-entry try of the loop that meets it.    *)
(***************************************************************************)
ZeroCounters ==
    [entry |-> 1, articles_fetched |-> 0, articles_processed |-> 0,
     duplicates_found |-> 0, sources_processed |-> 0, errors |-> 0]

EntryData(entry) == [url |-> entry.link, title |-> entry.title, is_active |-> TRUE]

fetchVars == <<feed, fetcher, corpus, batchVars, analysisVars>>

(***************************************************************************)
(* RSSService.fetch_and_process_source: the SQLAlchemy path.  The session  *)
(* is made with autoflush=False, so a query sees the committed rows only,  *)
(* never the articles db.add() has put in the session.                     *)
(***************************************************************************)
fetch_and_process_source_begin ==
    /\ fetcher = "orm"
    /\ fpc = "start"
    /\ counters' = ZeroCounters
    /\ IF feed.status # "success"
       THEN /\ summary' = [status |-> "error", articles_processed |-> 0]
            /\ fpc' = "done"
       ELSE /\ summary' = summary
            /\ fpc' = "entries"
    /\ UNCHANGED <<store, curationVars, saves, session, fetchVars>>

\* One turn of the loop over feed_data["entries"]
fetch_and_process_source_entry ==
    /\ fetcher = "orm"
    /\ fpc = "entries"
    /\ counters.entry <= Len(feed.entries)
    /\ LET entry == feed.entries[counters.entry]
           fetched == [counters EXCEPT !.entry = @ + 1, !.articles_fetched = @ + 1]
           duplicate_id == detect_duplicates(store, entry.link, entry.title)
       IN  IF entry.bad
           THEN /\ counters' = fetched
                /\ session' = session
           ELSE IF duplicate_id # None
           THEN /\ counters' = [fetched EXCEPT !.duplicates_found = @ + 1]
                /\ session' = session
           ELSE /\ counters' = [fetched EXCEPT !.articles_processed = @ + 1]
                /\ session' = Append(session, EntryData(entry))
    /\ UNCHANGED <<store, curationVars, saves, fetchVars, fpc, summary>>

\* The INSERTs of a flush, in the order of the adds; None when one of them
\* breaks the unique index
RECURSIVE Flush(_, _)
Flush(rows, pending) ==
    IF pending = <<>> THEN Some(rows)
    ELSE IF Head(pending).url \in UrlsOf(rows) THEN None
    ELSE Flush(Append(rows, InsertedRow(rows, Head(pending))), Tail(pending))

\* db.commit() and the return: an IntegrityError rolls the transaction back
\* and is caught by the outer except
fetch_and_process_source_commit ==
    /\ fetcher = "orm"
    /\ fpc = "entries"
    /\ counters.entry > Len(feed.entries)
    /\ LET flushed == Flush(store, session)
       IN  IF flushed = None
           THEN /\ store' = store
                /\ summary' = [status |-> "error", articles_processed |-> 0]
           ELSE /\ store' = ValueOf(flushed)
                /\ summary' = [status |-> "success",
                               articles_fetched |-> counters.articles_fetched,
                               articles_processed |-> counters.articles_processed,
                               duplicates_found |-> counters.duplicates_found]
    /\ session' = <<>>
    /\ fpc' = "done"
    /\ UNCHANGED <<curationVars, saves, fetchVars, counters>>

(***************************************************************************)
(* fetch_rss_feeds (POST /fetch): the REST path, for one active source.    *)
(***************************************************************************)
EntryLimit == 10

fetch_rss_feeds_begin ==
    /\ fetcher = "rest"
    /\ fpc = "start"
    /\ IF feed.status = "success"
       THEN /\ counters' = [ZeroCounters EXCEPT !.articles_fetched = Len(feed.entries)]
            /\ fpc' = "entries"
       ELSE /\ counters' = [ZeroCounters EXCEPT !.errors = 1]
            /\ fpc' = "failed"
    /\ UNCHANGED <<store, curationVars, saves, session, fetchVars, summary>>

\* One turn of the loop over entries[:10]; what save_article returns is not
\* looked at
fetch_rss_feeds_entry ==
    /\ fetcher = "rest"
    /\ fpc = "entries"
    /\ counters.entry <= Min(Len(feed.entries), EntryLimit)
    /\ LET entry == feed.entries[counters.entry]
       IN  IF entry.bad
           THEN /\ counters' = [counters EXCEPT !.entry = @ + 1, !.errors = @ + 1]
                /\ UNCHANGED <<store, saves>>
           ELSE \E outcome \in PostOutcomes(store, EntryData(entry)) :
                   /\ store' = outcome.rows
                   /\ saves' = Append(saves, SaveRecord(EntryData(entry), outcome))
                   /\ counters' = [counters EXCEPT !.entry = @ + 1,
                                                   !.articles_processed = @ + 1]
    /\ UNCHANGED <<curationVars, session, fetchVars, fpc, summary>>

\* The end of the source's turn and the RSSFetchResponse
fetch_rss_feeds_return ==
    /\ fetcher = "rest"
    /\ \/ fpc = "failed"
       \/ fpc = "entries" /\ counters.entry > Min(Len(feed.entries), EntryLimit)
    /\ LET sources_processed == IF fpc = "entries" THEN 1 ELSE 0
       IN  /\ counters' = [counters EXCEPT !.sources_processed = sources_processed]
           /\ summary' = [success |-> sources_processed > 0,
                          sources_processed |-> sources_processed,
                          articles_fetched |-> counters.articles_fetched,
                          articles_processed |-> counters.articles_processed,
                          duplicates_found |-> counters.duplicates_found,
                          errors |-> counters.errors]
    /\ fpc' = "done"
    /\ UNCHANGED <<store, curationVars, saves, session, fetchVars>>

(***************************************************************************)
(* RSSService.fetch_all_sources: asyncio.gather runs one                   *)
(* fetch_and_process_source per active source, all of them on the session  *)
(* the caller passed.  A task gives the event loop up only where an await  *)
(* reaches the network: the GET of the feed, and, inside                   *)
(* process_article_content, the GET of the article page that               *)
(* _fetch_article_image makes for an entry that brought no image of its    *)
(* own (page_fetch).  Between two such points a task runs alone.           *)
(***************************************************************************)
BatchSources == {1, 2}

NewTask ==
    [pc |-> "fetching", entry |-> 1, articles_fetched |-> 0,
     articles_processed |-> 0, duplicates_found |-> 0, added |-> <<>>,
     result |-> None]

ErrorResult(source_id) ==
    [source_id |-> source_id, status |-> "error", articles_processed |-> 0]

SuccessResult(source_id, task) ==
    [source_id |-> source_id, status |-> "success",
     articles_fetched |-> task.articles_fetched,
     articles_processed |-> task.articles_processed,
     duplicates_found |-> task.duplicates_found]

\* db.add(article); articles_processed += 1
AddArticle(task, entry) ==
    [task EXCEPT !.articles_processed = @ + 1,
                 !.added = Append(@, entry.link),
                 !.entry = @ + 1]

\* db.commit() flushes everything the shared session holds; an
\* IntegrityError rolls the transaction back, which expunges every pending
\* article, and reaches the outer except of the task that committed
CommitAndReturn(source_id, task, pending, rows) ==
    LET flushed == Flush(rows, pending)
    IN  IF flushed = None
        THEN [task |-> [task EXCEPT !.pc = "done",
                                    !.result = Some(ErrorResult(source_id))],
              session |-> <<>>, store |-> rows]
        ELSE [task |-> [task EXCEPT !.pc = "done",
                                    !.result = Some(SuccessResult(source_id, task))],
              session |-> <<>>, store |-> ValueOf(flushed)]

\* The loop over feed_data["entries"] from task.entry on, up to the next
\* await that suspends the task or to the return
RECURSIVE RunEntries(_, _, _, _, _)
RunEntries(source_id, entries, task, pending, rows) ==
    IF task.entry > Len(entries)
    THEN CommitAndReturn(source_id, task, pending, rows)
    ELSE LET entry == entries[task.entry]
             fetched == [task EXCEPT !.articles_fetched = @ + 1]
         IN  IF entry.bad
             THEN RunEntries(source_id, entries,
                             [fetched EXCEPT !.entry = @ + 1], pending, rows)
             ELSE IF detect_duplicates(rows, entry.link, entry.title) # None
             THEN RunEntries(source_id, entries,
                             [fetched EXCEPT !.entry = @ + 1,
                                             !.duplicates_found = @ + 1],
                             pending, rows)
             ELSE IF entry.page_fetch
             THEN [task |-> [fetched EXCEPT !.pc = "processing"],
                   session |-> pending, store |-> rows]
             ELSE RunEntries(source_id, entries, AddArticle(fetched, entry),
                             Append(pending, EntryData(entry)), rows)

\* Task t resumes with the feed that fetch_rss_feed returned
fetch_and_process_source_feed ==
    /\ fetcher = "orm"
    /\ fpc = "sources"
    /\ \E t \in BatchSources :
          /\ tasks[t].pc = "fetching"
          /\ IF feeds[t].status # "success"
             THEN /\ tasks' = [tasks EXCEPT ![t] =
                                  [@ EXCEPT !.pc = "done",
                                            !.result = Some(ErrorResult(t))]]
                  /\ UNCHANGED <<store, session>>
             ELSE LET run == RunEntries(t, feeds[t].entries, tasks[t],
                                        session, store)
                  IN  /\ tasks' = [tasks EXCEPT ![t] = run.task]
                      /\ session' = run.session
                      /\ store' = run.store
    /\ UNCHANGED <<curationVars, saves, feed, fetcher, fpc, counters, corpus,
                   summary, feeds, analysisVars>>

\* Task t resumes with the article page: the article is added and the loop
\* goes on
fetch_and_process_source_page ==
    /\ fetcher = "orm"
    /\ fpc = "sources"
    /\ \E t \in BatchSources :
          /\ tasks[t].pc = "processing"
          /\ LET entry == feeds[t].entries[tasks[t].entry]
                 run == RunEntries(t, feeds[t].entries,
                                   AddArticle([tasks[t] EXCEPT !.pc = "running"], entry),
                                   Append(session, EntryData(entry)), store)
             IN  /\ tasks' = [tasks EXCEPT ![t] = run.task]
                 /\ session' = run.session
                 /\ store' = run.store
    /\ UNCHANGED <<curationVars, saves, feed, fetcher, fpc, counters, corpus,
                   summary, feeds, analysisVars>>

\* result.get(key, 0)
Get(r, key) == IF key \in DOMAIN r THEN r[key] ELSE 0

RECURSIVE SumOver(_, _)
SumOver(results, key) ==
    IF results = <<>> THEN 0
    ELSE Get(Head(results), key) + SumOver(Tail(results), key)

\* The errors list: one text per result whose status is "error"
RECURSIVE ErrorsOf(_)
ErrorsOf(results) ==
    IF results = <<>> THEN <<>>
    ELSE IF Head(results).status = "error"
    THEN <<[kind |-> "source", source |-> Head(results).source_id]>>
         \o ErrorsOf(Tail(results))
    ELSE ErrorsOf(Tail(results))

\* An aggregation that gives the batch up at the first failed source
AggregateAbortsOnError(results) ==
    IF ErrorsOf(results) # <<>>
    THEN [success |-> FALSE, sources_processed |-> 0, articles_fetched |-> 0,
          articles_processed |-> 0, duplicates_found |-> 0,
          errors |-> <<Head(ErrorsOf(results))>>]
    ELSE [success |-> TRUE,
          sources_processed |-> Len(results),
          articles_fetched |-> SumOver(results, "articles_fetched"),
          articles_processed |-> SumOver(results, "articles_processed"),
          duplicates_found |-> SumOver(results, "duplicates_found"),
          errors |-> <<>>]

Aggregate(results) ==
    [success |-> TRUE,
     sources_processed |-> Len(results),
     articles_fetched |-> SumOver(results, "articles_fetched"),
     articles_processed |-> SumOver(results, "articles_processed"),
     duplicates_found |-> SumOver(results, "duplicates_found"),
     errors |-> ErrorsOf(results)]

\* gather has every result: the aggregation and the return
fetch_all_sources_return ==
    /\ fetcher = "orm"
    /\ fpc = "sources"
    /\ \A t \in BatchSources : tasks[t].pc = "done"
    /\ summary' = Aggregate([t \in BatchSources |-> ValueOf(tasks[t].result)])
    /\ fpc' = "done"
    /\ UNCHANGED <<store, curationVars, saves, session, feed, fetcher, counters,
                   corpus, batchVars, analysisVars>>

(***************************************************************************)
(* fetch_rss_feeds (POST /fetch) over all active sources: the REST path    *)
(* takes the sources one after the other.                                  *)
(***************************************************************************)
ZeroBatchCounters ==
    [sources_processed |-> 0, articles_fetched |-> 0, articles_processed |-> 0,
     duplicates_found |-> 0, errors |-> <<>>]

\* The source whose turn it is: the first one that is not done
IsTurnOf(t) ==
    /\ tasks[t].pc # "done"
    /\ \A u \in BatchSources : u < t => tasks[u].pc = "done"

\* sources_processed += 1 once the loop over entries[:10] has ended.  The
\* endpoint keeps no result per source: tasks[t].result records how the
\* turn of the source ended
EndOfTurn(t, task, ctrs) ==
    IF task.entry > Min(Len(feeds[t].entries), EntryLimit)
    THEN [task |-> [task EXCEPT !.pc = "done",
                                !.result = Some(SuccessResult(t, task))],
          counters |-> [ctrs EXCEPT !.sources_processed = @ + 1]]
    ELSE [task |-> [task EXCEPT !.pc = "entries"], counters |-> ctrs]

\* The turn of a source up to its first entry
fetch_rss_feeds_source ==
    /\ fetcher = "rest"
    /\ fpc = "sources"
    /\ \E t \in BatchSources :
          /\ IsTurnOf(t)
          /\ tasks[t].pc = "fetching"
          /\ IF feeds[t].status = "success"
             THEN LET n == Len(feeds[t].entries)
                      turn == EndOfTurn(t, [tasks[t] EXCEPT !.articles_fetched = n],
                                        [counters EXCEPT !.articles_fetched = @ + n])
                  IN  /\ tasks' = [tasks EXCEPT ![t] = turn.task]
                      /\ counters' = turn.counters
             ELSE /\ tasks' = [tasks EXCEPT ![t] =
                                  [@ EXCEPT !.pc = "done",
                                            !.result = Some(ErrorResult(t))]]
                  /\ counters' = [counters EXCEPT !.errors =
                                     Append(@, [kind |-> "source", source |-> t])]
    /\ UNCHANGED <<store, curationVars, saves, session, feed, fetcher, fpc,
                   corpus, summary, feeds, analysisVars>>

\* One turn of the loop over entries[:10] of the source
fetch_rss_feeds_source_entry ==
    /\ fetcher = "rest"
    /\ fpc = "sources"
    /\ \E t \in BatchSources :
          /\ IsTurnOf(t)
          /\ tasks[t].pc = "entries"
          /\ LET entry == feeds[t].entries[tasks[t].entry]
             IN  IF entry.bad
                 THEN LET turn == EndOfTurn(t, [tasks[t] EXCEPT !.entry = @ + 1],
                                     [counters EXCEPT !.errors =
                                         Append(@, [kind |-> "article", source |-> t])])
                      IN  /\ tasks' = [tasks EXCEPT ![t] = turn.task]
                          /\ counters' = turn.counters
                          /\ UNCHANGED <<store, saves>>
                 ELSE \E outcome \in PostOutcomes(store, EntryData(entry)) :
                         LET turn == EndOfTurn(t, AddArticle(tasks[t], entry),
                                        [counters EXCEPT !.articles_processed = @ + 1])
                         IN  /\ store' = outcome.rows
                             /\ saves' = Append(saves, SaveRecord(EntryData(entry), outcome))
                             /\ tasks' = [tasks EXCEPT ![t] = turn.task]
                             /\ counters' = turn.counters
    /\ UNCHANGED <<curationVars, session, feed, fetcher, fpc, corpus, summary,
                   feeds, analysisVars>>

\* The RSSFetchResponse
fetch_rss_feeds_response ==
    /\ fetcher = "rest"
    /\ fpc = "sources"
    /\ \A t \in BatchSources : tasks[t].pc = "done"
    /\ summary' = [success |-> counters.sources_processed > 0,
                   sources_processed |-> counters.sources_processed,
                   articles_fetched |-> counters.articles_fetched,
                   articles_processed |-> counters.articles_processed,
                   duplicates_found |-> counters.duplicates_found,
                   errors |-> counters.errors]
    /\ fpc' = "done"
    /\ UNCHANGED <<store, curationVars, saves, session, feed, fetcher, counters,
                   corpus, batchVars, analysisVars>>

(***************************************************************************)
(* RSSService.fetch_rss_feed.  What the GET does and what feedparser makes *)
(* of the body are the inputs: feedparser.parse does not raise on a        *)
(* document it cannot parse, it sets bozo and returns what it recovered.   *)
(***************************************************************************)
\* feedparser.parse(response.content): the bozo flag and the entries
feedparser_parse(document, items) ==
    [bozo |-> document # "feed",
     entries |-> IF document = "unparseable" THEN 0 ELSE items]

Returned(value) == [raised |-> FALSE, value |-> value]

Raised == [raised |-> TRUE, value |-> None]

fetch_rss_feed(http, document, items) ==
    IF http = "status_error"
    THEN Returned([status |-> "error", error |-> Some("HTTP"), entries |-> None])
    ELSE IF http = "request_error"
    THEN Returned([status |-> "error", error |-> Some("Request error"), entries |-> None])
    ELSE IF http = "other_error"
    THEN Returned([status |-> "error", error |-> Some("exception"), entries |-> None])
    ELSE LET parsed == feedparser_parse(document, items)
         IN  Returned([status |-> "success", error |-> None,
                       entries |-> Some(parsed.entries)])

fetch_rss_feed_call ==
    /\ call # None
    /\ result = None
    /\ ValueOf(call).fn = "fetch_rss_feed"
    /\ LET c == ValueOf(call)
       IN  result' = Some(fetch_rss_feed(c.http, c.document, c.items))
    /\ UNCHANGED <<store, curationVars, saves, session, feed, fetcher, fpc,
                   counters, corpus, summary, batchVars, call>>

(***************************************************************************)
(* RSSService.extract_images_from_content and _fetch_article_image.  The   *)
(* HTML of the entry is given by what its parsing yields: no <img>, a      *)
(* first <img> with an absolute or a root-relative src, or markup that     *)
(* html.parser rejects; inline_thumbnail is an <img> whose absolute src    *)
(* carries one of the thumbnail keywords.                                  *)
(***************************************************************************)
InlineImage == "https://example.com/inline.png"
InlineThumbnail == "https://example.com/inline-thumb.png"
JoinedImage == "https://example.com/relative.png"
PageImage == "https://example.com/og.png"

NoImages == [image_url |-> None, thumbnail_url |-> None, image_alt_text |-> None]

TwitterImage == "https://example.com/twitter.png"
RelativePageImage == "/images/og.png"
FeedThumbnail == "https://example.com/thumb.png"
CdnImage == "https://cdn.example.com/feed.png"
ProtocolRelativeImage == "//cdn.example.com/feed.png"
RootRelativeImage == "/images/feed.png"
OtherSchemeImage == "ftp://example.com/feed.png"
Photos == <<"https://example.com/photo1.png", "https://example.com/photo2.png",
            "https://example.com/photo3.png">>
UnnamedPhoto == "https://example.com/tracker"
RelativePhoto == "/photo.png"

\* str.startswith on the URLs of the model, which TLC holds as atoms
HttpUrls ==
    {ImageUrl, FeedThumbnail, CdnImage, InlineImage, InlineThumbnail,
     JoinedImage, PageImage, TwitterImage, UnnamedPhoto} \cup Range(Photos)

startswith_http(url) == url \in HttpUrls

startswith_slashes(url) == url = ProtocolRelativeImage

startswith_slash(url) ==
    url \in {ProtocolRelativeImage, RootRelativeImage, RelativePageImage,
             RelativePhoto}

\* 'https:' + url
WithHttps(url) == IF url = ProtocolRelativeImage THEN CdnImage ELSE url

\* _is_valid_image_url: an http URL that names an image
is_valid_image_url(url) == startswith_http(url) /\ url # UnnamedPhoto

ImageFloor == 50000

\* The candidates of an article page, in the order the code appends them:
\* the Open Graph image, the Twitter card image, the <img>s of the article
\* container, and the <img>s of the whole page above the floor.  A meta
\* image is appended as a bare string, which the sort ranks as 0
MetaCandidates(page) ==
    (IF page.og # None THEN <<[url |-> ValueOf(page.og), score |-> 0]>> ELSE <<>>)
    \o (IF page.twitter # None
        THEN <<[url |-> ValueOf(page.twitter), score |-> 0]>> ELSE <<>>)

IsArticleCandidate(img) == img.in_article /\ is_valid_image_url(img.src)

IsPageCandidate(img) ==
    /\ is_valid_image_url(img.src)
    /\ img.dims = "numeric"
    /\ img.area > ImageFloor

Scored(imgs) ==
    [i \in DOMAIN imgs |->
        [url |-> imgs[i].src,
         score |-> IF imgs[i].dims = "numeric" THEN imgs[i].area ELSE 0]]

image_candidates(page) ==
    MetaCandidates(page)
    \o Scored(SelectSeq(page.imgs, IsArticleCandidate))
    \o Scored(SelectSeq(page.imgs, IsPageCandidate))

\* int(width) * int(height) raises on a declared size that is no number
SizeRaises(page) ==
    \E i \in DOMAIN page.imgs :
        is_valid_image_url(page.imgs[i].src) /\ page.imgs[i].dims = "malformed"

\* The stable sort by score, largest first, and its first element
BestCandidate(candidates) ==
    LET top == CHOOSE i \in DOMAIN candidates :
                   \A j \in DOMAIN candidates :
                       \/ candidates[j].score < candidates[i].score
                       \/ candidates[j].score = candidates[i].score /\ i <= j
    IN  candidates[top].url

\* The body of _fetch_article_image once the page is read; any exception
\* is caught at line 887 and None returned
select_article_image(page) ==
    IF SizeRaises(page) \/ image_candidates(page) = <<>> THEN None
    ELSE Some(BestCandidate(image_candidates(page)))

NoPageImages == [og |-> None, twitter |-> None, imgs |-> <<>>]

\* The article pages of the image resolution: one without any image, one
\* with an Open Graph image, one whose Open Graph image is root-relative
PageOf(page) ==
    IF page = "image" THEN [NoPageImages EXCEPT !.og = Some(PageImage)]
    ELSE IF page = "relative_image"
         THEN [NoPageImages EXCEPT !.og = Some(RelativePageImage)]
    ELSE NoPageImages

\* _fetch_article_image: its whole body is one try block whose except
\* returns None
fetch_article_image(article_url, page) ==
    IF article_url = "valid" /\ page # "unreachable"
    THEN select_article_image(PageOf(page))
    ELSE None

\* The clean-up that ends _extract_rss_images: a protocol-relative URL gets
\* the https scheme, a root-relative one is dropped, any other is kept
clean_rss_url(url) ==
    IF url = None THEN None
    ELSE IF startswith_http(ValueOf(url)) THEN url
    ELSE IF startswith_slashes(ValueOf(url)) THEN Some(WithHttps(ValueOf(url)))
    ELSE IF startswith_slash(ValueOf(url)) THEN None
    ELSE url

\* _extract_rss_images, from the URLs the media fields of the entry give
extract_rss_images(media) ==
    [image_url |-> clean_rss_url(media.image_url),
     thumbnail_url |-> clean_rss_url(media.thumbnail_url),
     image_alt_text |-> media.image_alt_text]

\* Step 1: the images of the feed's own fields
FromFeed(rss_images) ==
    [image_url |-> rss_images.image_url,
     thumbnail_url |-> rss_images.thumbnail_url,
     image_alt_text |-> rss_images.image_alt_text]

\* Step 2 raises where BeautifulSoup rejects the markup and where urljoin
\* is given an article URL it cannot split
InlineRaises(content, article_url) ==
    \/ content = "rejected"
    \/ content = "img_relative" /\ article_url = "malformed"

\* Step 2: the first <img> of the content and a thumbnail among the <img>s
FromContent(image_data, content, article_url, inline_thumbnail) ==
    IF content \in {"empty", "no_img"} THEN image_data
    ELSE LET image_url == IF content = "img_absolute" THEN Some(InlineImage)
                          ELSE IF article_url = "valid" THEN Some(JoinedImage)
                          ELSE None
             with_image == IF image_url # None
                           THEN [image_data EXCEPT !.image_url = image_url,
                                                   !.image_alt_text = Some("alt")]
                           ELSE image_data
         IN  IF with_image.thumbnail_url = None /\ inline_thumbnail
             THEN [with_image EXCEPT !.thumbnail_url = Some(InlineThumbnail)]
             ELSE with_image

\* Step 3: the image of the article page, also taken as the thumbnail
FromArticlePage(image_data, article_url, page) ==
    LET article_image == fetch_article_image(article_url, page)
    IN  IF article_image = None THEN image_data
        ELSE [image_data EXCEPT !.image_url = article_image,
                 !.thumbnail_url = IF @ = None THEN article_image ELSE @]

\* Step 4: the thumbnail stands in for a missing image
Fallback(image_data) ==
    IF image_data.image_url = None /\ image_data.thumbnail_url # None
    THEN [image_data EXCEPT !.image_url = image_data.thumbnail_url]
    ELSE image_data

\* The steps a resolution entered, in the order it entered them
Entered(runs, step) == IF runs THEN <<step>> ELSE <<>>

\* Step 3 with its guard dropped: the article page is fetched whenever the
\* entry has a link
ResolutionAlwaysFetchingPage(content, article_url, rss_images, inline_thumbnail, page) ==
    LET step1 == IF rss_images = None THEN NoImages ELSE FromFeed(ValueOf(rss_images))
        runs2 == step1.image_url = None /\ content # "empty"
    IN  IF runs2 /\ InlineRaises(content, article_url)
        THEN [raised |-> TRUE, value |-> None,
              steps |-> Entered(rss_images # None, "feed") \o <<"inline">>]
        ELSE LET step2 == IF runs2
                          THEN FromContent(step1, content, article_url, inline_thumbnail)
                          ELSE step1
                 runs3 == article_url # "none"
                 step3 == IF runs3
                          THEN FromArticlePage(step2, article_url, page)
                          ELSE step2
             IN  [raised |-> FALSE, value |-> Fallback(step3),
                  steps |-> Entered(rss_images # None, "feed")
                            \o Entered(runs2, "inline")
                            \o Entered(runs3, "page")
                            \o Entered(Fallback(step3) # step3, "fallback")]

\* The result carries, beside the image data the code returns, the steps
\* the call entered
extract_images_from_content(content, article_url, rss_images, inline_thumbnail, page) ==
    LET step1 == IF rss_images = None THEN NoImages ELSE FromFeed(ValueOf(rss_images))
        runs2 == step1.image_url = None /\ content # "empty"
    IN  IF runs2 /\ InlineRaises(content, article_url)
        THEN [raised |-> TRUE, value |-> None,
              steps |-> Entered(rss_images # None, "feed") \o <<"inline">>]
        ELSE LET step2 == IF runs2
                          THEN FromContent(step1, content, article_url, inline_thumbnail)
                          ELSE step1
                 runs3 == step2.image_url = None /\ article_url # "none"
                 step3 == IF runs3
                          THEN FromArticlePage(step2, article_url, page)
                          ELSE step2
             IN  [raised |-> FALSE, value |-> Fallback(step3),
                  steps |-> Entered(rss_images # None, "feed")
                            \o Entered(runs2, "inline")
                            \o Entered(runs3, "page")
                            \o Entered(Fallback(step3) # step3, "fallback")]

extract_images_from_content_call ==
    /\ call # None
    /\ result = None
    /\ ValueOf(call).fn = "extract_images_from_content"
    /\ LET c == ValueOf(call)
       IN  result' = Some(extract_images_from_content(c.content, c.article_url,
                              c.rss_images, c.inline_thumbnail, c.page))
    /\ UNCHANGED <<store, curationVars, saves, session, feed, fetcher, fpc,
                   counters, corpus, summary, batchVars, call>>

(***************************************************************************)
(* RSSService.calculate_reading_time.  The text is given by the number of  *)
(* words soup.get_text().split() finds in it.                              *)
(***************************************************************************)
ReadingSpeed == 200
MaxReadingTime == 60

Max(a, b) == IF a >= b THEN a ELSE b

\* The reading time without the cap of the last line
ReadingTimeUncapped(empty, words) ==
    IF empty THEN 1 ELSE Max(1, words \div ReadingSpeed)

calculate_reading_time(empty, words) ==
    IF empty THEN 1
    ELSE Min(Max(1, words \div ReadingSpeed), MaxReadingTime)

calculate_reading_time_call ==
    /\ call # None
    /\ result = None
    /\ ValueOf(call).fn = "calculate_reading_time"
    /\ LET c == ValueOf(call)
       IN  result' = Some(Returned(calculate_reading_time(c.empty, c.words)))
    /\ UNCHANGED <<store, curationVars, saves, session, feed, fetcher, fpc,
                   counters, corpus, summary, batchVars, call>>

(***************************************************************************)
(* RSSService._calculate_quality_score.  The score is kept as a multiple   *)
(* of 1/QualityScale, in which length_score (a multiple of 1/500, times a  *)
(* penalty in tenths, times 0.4) and readability_score_norm (a multiple of *)
(* 1/100, times 0.6) are both whole.                                       *)
(***************************************************************************)
OptimalWords == 500
ShortArticle == 100
LongArticle == 2000

QualityScale == OptimalWords * 100

\* The score without the test of word_count in the first line
QualityWithoutWordTest(empty, word_count, readability) ==
    IF empty THEN 0
    ELSE
    LET length == Min(OptimalWords, word_count)
        norm == Max(0, Min(100, readability))
        penalty == IF word_count < ShortArticle THEN 5
                   ELSE IF word_count > LongArticle THEN 8
                   ELSE 10
        quality == 4 * length * penalty + 6 * norm * (OptimalWords \div 10)
    IN  Max(0, Min(QualityScale, quality))

calculate_quality_score(empty, word_count, readability) ==
    IF empty \/ word_count = 0 THEN 0
    ELSE
    LET length == Min(OptimalWords, word_count)
        norm == Max(0, Min(100, readability))
        penalty == IF word_count < ShortArticle THEN 5
                   ELSE IF word_count > LongArticle THEN 8
                   ELSE 10
        quality == 4 * length * penalty + 6 * norm * (OptimalWords \div 10)
    IN  Max(0, Min(QualityScale, quality))

calculate_quality_score_call ==
    /\ call # None
    /\ result = None
    /\ ValueOf(call).fn = "calculate_quality_score"
    /\ LET c == ValueOf(call)
       IN  result' = Some(Returned(calculate_quality_score(c.empty, c.word_count,
                                                           c.readability)))
    /\ UNCHANGED <<store, curationVars, saves, session, feed, fetcher, fpc,
                   counters, corpus, summary, batchVars, call>>

(***************************************************************************)
(* The two title similarities called on a pair of titles: in both orders   *)
(* and on the first title with itself.                                     *)
(***************************************************************************)
title_sim_call ==
    /\ call # None
    /\ result = None
    /\ ValueOf(call).fn = "title_sim"
    /\ LET c == ValueOf(call)
       IN  result' = Some(Returned([forward |-> title_sim(c.a, c.b),
                                    backward |-> title_sim(c.b, c.a),
                                    self |-> title_sim(c.a, c.a)]))
    /\ UNCHANGED <<store, curationVars, saves, session, feed, fetcher, fpc,
                   counters, corpus, summary, batchVars, call>>

calculate_similarity_call ==
    /\ call # None
    /\ result = None
    /\ ValueOf(call).fn = "calculate_similarity"
    /\ LET c == ValueOf(call)
       IN  result' = Some(Returned([forward |-> calculate_similarity(c.a, c.b),
                                    backward |-> calculate_similarity(c.b, c.a),
                                    self |-> calculate_similarity(c.a, c.a)]))
    /\ UNCHANGED <<store, curationVars, saves, session, feed, fetcher, fpc,
                   counters, corpus, summary, batchVars, call>>

(***************************************************************************)
(* The inputs of the ingestion models.                                     *)
(***************************************************************************)
EntryShapes ==
    {[link |-> Urls[1], title |-> "Story 1", bad |-> FALSE],
     [link |-> Urls[1], title |-> "Story 2", bad |-> FALSE],
     [link |-> Urls[2], title |-> "Story 1", bad |-> FALSE],
     [link |-> Urls[2], title |-> "Story 2", bad |-> TRUE]}

Feeds ==
    {[status |-> "error", entries |-> <<>>]}
    \cup {[status |-> "success", entries |-> e] :
             e \in UNION {[1..n -> EntryShapes] : n \in 0..MaxFeed}}

\* The store before the ingestion: empty, holding the first story, or
\* holding a deactivated article titled as the second
Corpora ==
    {<<>>,
     <<[id |-> 1, url |-> Urls[1], title |-> "Story 1", is_active |-> TRUE]>>,
     <<[id |-> 1, url |-> Urls[3], title |-> "Story 2", is_active |-> FALSE]>>}

InitCurationIdle ==
    /\ request = BaseRequest
    /\ pc = "idle"
    /\ articles = <<>>
    /\ curated_articles = <<>>
    /\ store_failed = FALSE
    /\ response = None

InitBatchIdle ==
    /\ feeds = <<>>
    /\ tasks = <<>>

InitAnalysisIdle ==
    /\ call = None
    /\ result = None

InitFetchIdle ==
    /\ saves = <<>>
    /\ session = <<>>
    /\ feed = [status |-> "success", entries |-> <<>>]
    /\ fetcher = "rest"
    /\ fpc = "done"
    /\ counters = ZeroCounters
    /\ corpus = <<>>
    /\ summary = None
    /\ InitBatchIdle

InitIngestIdle ==
    /\ InitFetchIdle
    /\ InitAnalysisIdle

(***************************************************************************)
(* SpecCuration: one call of generate_newsletter on any store and request. *)
(***************************************************************************)
InitCuration ==
    /\ store \in Pools \cup {Scenario3Pool}
    /\ request \in Requests
    /\ pc = "idle"
    /\ articles = <<>>
    /\ curated_articles = <<>>
    /\ store_failed = FALSE
    /\ response = None
    /\ InitIngestIdle

NextCuration == generate_newsletter

SpecCuration == InitCuration /\ [][NextCuration]_vars

(***************************************************************************)
(* SpecNewsletter: generate_newsletter with the store client made as line  *)
(* 115 makes it.                                                           *)
(***************************************************************************)
\* The keyword arguments SupabaseRSSService.__init__ takes
InitKeywords == {"access_token"}

\* The keyword arguments of the call SupabaseRSSService(use_service_role=True)
ClientKeywords == {"use_service_role"}

\* A call with a keyword argument the signature does not name raises
\* TypeError
ConstructorRaises(keywords) == ~(keywords \subseteq InitKeywords)

\* The handler with the construction of the client in it: the TypeError is
\* raised inside the try block of line 113 before any request is made, and
\* the except branch of line 213 empties the batch
generate_newsletter_rss ==
    /\ pc = "idle"
    /\ IF ~request.use_rss THEN Respond(<<>>, <<>>, FALSE)
       ELSE IF ConstructorRaises(ClientKeywords) THEN Respond(<<>>, <<>>, FALSE)
       ELSE \/ \E rows \in QueryResults(store, QueryParams(request)) :
                  LET curated == Curate(rows, request)
                  IN  Respond(rows, curated, FALSE)
            \/ Respond(<<>>, <<>>, TRUE)
    /\ UNCHANGED <<request, ingestVars>>

NextNewsletter == generate_newsletter_rss

SpecNewsletter == InitCuration /\ [][NextNewsletter]_vars

(***************************************************************************)
(* SpecSave: up to MaxSaves calls of save_article, in any order.           *)
(***************************************************************************)
InitSave ==
    /\ store \in Corpora
    /\ corpus = store
    /\ saves = <<>>
    /\ session = <<>>
    /\ feed = [status |-> "success", entries |-> <<>>]
    /\ fetcher = "rest"
    /\ fpc = "done"
    /\ counters = ZeroCounters
    /\ summary = None
    /\ InitBatchIdle
    /\ InitAnalysisIdle
    /\ InitCurationIdle

NextSave == save_article

SpecSave == InitSave /\ [][NextSave]_vars

(***************************************************************************)
(* SpecFetch: one feed ingested by either fetcher.                         *)
(***************************************************************************)
InitFetch ==
    /\ store \in Corpora
    /\ corpus = store
    /\ feed \in Feeds
    /\ fetcher \in {"orm", "rest"}
    /\ fpc = "start"
    /\ counters = ZeroCounters
    /\ saves = <<>>
    /\ session = <<>>
    /\ summary = None
    /\ InitBatchIdle
    /\ InitAnalysisIdle
    /\ InitCurationIdle

NextFetch ==
    \/ fetch_and_process_source_begin
    \/ fetch_and_process_source_entry
    \/ fetch_and_process_source_commit
    \/ fetch_rss_feeds_begin
    \/ fetch_rss_feeds_entry
    \/ fetch_rss_feeds_return

SpecFetch == InitFetch /\ [][NextFetch]_vars

(***************************************************************************)
(* SpecBatch: one batch over two active sources, by fetch_all_sources      *)
(* (tasks interleaved at their network awaits) or by fetch_rss_feeds (one  *)
(* source after the other).                                                *)
(***************************************************************************)
\* The third entry brings no image: its processing waits for the article
\* page
BatchEntries ==
    {[link |-> Urls[1], title |-> "Story 1", bad |-> FALSE, page_fetch |-> FALSE],
     [link |-> Urls[2], title |-> "Story 2", bad |-> FALSE, page_fetch |-> FALSE],
     [link |-> Urls[3], title |-> "Story 3", bad |-> FALSE, page_fetch |-> TRUE],
     [link |-> Urls[2], title |-> "Story 2", bad |-> TRUE, page_fetch |-> FALSE]}

\* fetch_rss_feeds awaits every entry in turn, whatever the entry brings
RestEntries == {e \in BatchEntries : ~e.page_fetch}

BatchFeeds(entries, longest) ==
    {[status |-> "error", entries |-> <<>>]}
    \cup {[status |-> "success", entries |-> e] :
             e \in UNION {[1..n -> entries] : n \in 0..longest}}

BatchCorpora ==
    {<<>>,
     <<[id |-> 1, url |-> Urls[2], title |-> "Story 2", is_active |-> TRUE]>>}

InitBatch ==
    /\ store \in BatchCorpora
    /\ corpus = store
    /\ \/ /\ fetcher = "orm"
          /\ feeds \in [BatchSources -> BatchFeeds(BatchEntries, MaxBatchFeed)]
       \/ /\ fetcher = "rest"
          /\ feeds \in [BatchSources -> BatchFeeds(RestEntries, MaxRestFeed)]
    /\ tasks = [t \in BatchSources |-> NewTask]
    /\ fpc = "sources"
    /\ counters = ZeroBatchCounters
    /\ saves = <<>>
    /\ session = <<>>
    /\ feed = [status |-> "success", entries |-> <<>>]
    /\ summary = None
    /\ InitAnalysisIdle
    /\ InitCurationIdle

NextBatch ==
    \/ fetch_and_process_source_feed
    \/ fetch_and_process_source_page
    \/ fetch_all_sources_return
    \/ fetch_rss_feeds_source
    \/ fetch_rss_feeds_source_entry
    \/ fetch_rss_feeds_response

SpecBatch == InitBatch /\ [][NextBatch]_vars

(***************************************************************************)
(* SpecAnalysis: one call of one of the functions that work on a single    *)
(* feed or a single article, on any of the inputs below.                   *)
(***************************************************************************)
FetchCalls ==
    {[fn |-> "fetch_rss_feed", http |-> h, document |-> doc, items |-> n] :
        h \in {"ok", "status_error", "request_error", "other_error"},
        doc \in {"feed", "feed_with_warnings", "unparseable"},
        n \in 0..MaxItems}

\* What the media fields of an entry give before the clean-up
MediaFields ==
    {[image_url |-> i, thumbnail_url |-> t, image_alt_text |-> a] :
        i \in {None, Some(ImageUrl), Some(ProtocolRelativeImage),
               Some(RootRelativeImage), Some(OtherSchemeImage)},
        t \in {None, Some(FeedThumbnail)},
        a \in {None, Some("feed alt")}}

FeedImages == {None} \cup {Some(extract_rss_images(m)) : m \in MediaFields}

ImageCalls ==
    {[fn |-> "extract_images_from_content", content |-> c, article_url |-> u,
      rss_images |-> r, inline_thumbnail |-> th, page |-> pg] :
        c \in {"empty", "no_img", "img_absolute", "img_relative", "rejected"},
        u \in {"none", "valid", "malformed"},
        r \in FeedImages,
        th \in BOOLEAN,
        pg \in {"unreachable", "no_image", "image", "relative_image"}}

\* The empty text, and the texts of up to longest words
ReadingCalls(longest) ==
    {[fn |-> "calculate_reading_time", empty |-> TRUE, words |-> 0]}
    \cup {[fn |-> "calculate_reading_time", empty |-> FALSE, words |-> n] :
             n \in 0..longest}

\* Flesch reading ease, which can fall below 0 and rise above 100
Readabilities == {5 * k : k \in -4..24}

QualityCalls(longest) ==
    {[fn |-> "calculate_quality_score", empty |-> e, word_count |-> n,
      readability |-> r] :
        e \in BOOLEAN, n \in 0..longest, r \in Readabilities}

SimilarityCalls ==
    {[fn |-> f, a |-> a, b |-> b] :
        f \in {"title_sim", "calculate_similarity"}, a \in Titles, b \in Titles}

\* detect_duplicates called on a store of articles: a failure of the query
\* is caught at line 304 and answers None
detect_duplicates_call ==
    /\ call # None
    /\ result = None
    /\ ValueOf(call).fn = "detect_duplicates"
    /\ LET c == ValueOf(call)
       IN  result' = Some(Returned(IF c.db_error THEN None
                                   ELSE detect_duplicates(c.rows, c.article_url,
                                                          c.title)))
    /\ UNCHANGED <<store, curationVars, saves, session, feed, fetcher, fpc,
                   counters, corpus, summary, batchVars, call>>

\* The stored articles detect_duplicates is called on: up to two articles,
\* each active or deactivated
DuplicateRows(id) ==
    {[id |-> id, url |-> u, title |-> t, is_active |-> a] :
        u \in {Urls[1], Urls[3]}, t \in {"Story 1", "Story 2"}, a \in BOOLEAN}

DuplicateCorpora ==
    {<<>>} \cup {<<r>> : r \in DuplicateRows(1)}
           \cup {<<r, s>> : r \in DuplicateRows(1), s \in DuplicateRows(2)}

DuplicateCalls ==
    {[fn |-> "detect_duplicates", rows |-> r, article_url |-> u, title |-> t,
      db_error |-> e] :
        r \in DuplicateCorpora, u \in {Urls[1], Urls[2], Urls[3]},
        t \in {"Story 1", "Story 2"}, e \in BOOLEAN}

\* _fetch_article_image called on an article page, or on none where the
\* GET fails or answers with an error status
fetch_article_image_call ==
    /\ call # None
    /\ result = None
    /\ ValueOf(call).fn = "fetch_article_image"
    /\ LET c == ValueOf(call)
       IN  result' = Some(Returned(IF c.page = None THEN None
                                   ELSE select_article_image(ValueOf(c.page))))
    /\ UNCHANGED <<store, curationVars, saves, session, feed, fetcher, fpc,
                   counters, corpus, summary, batchVars, call>>

\* The <img> at position k of a page: with a declared size below or above
\* the floor, without one, with one that is no number, or with a src that
\* _is_valid_image_url rejects
ImgShapes(k) ==
    {[src |-> Photos[k], dims |-> "numeric", area |-> a, in_article |-> c] :
        a \in {30000, 60000, 90000}, c \in BOOLEAN}
    \cup {[src |-> Photos[k], dims |-> "none", area |-> 0, in_article |-> c] :
             c \in BOOLEAN}
    \cup {[src |-> Photos[k], dims |-> "malformed", area |-> 0, in_article |-> TRUE],
          [src |-> RelativePhoto, dims |-> "numeric", area |-> 90000,
           in_article |-> TRUE]}

RECURSIVE ImgLists(_)
ImgLists(n) ==
    IF n = 0 THEN {<<>>}
    ELSE LET shorter == ImgLists(n - 1)
         IN  shorter \cup {Append(l, img) : l \in {s \in shorter : Len(s) = n - 1},
                                            img \in ImgShapes(n)}

ArticlePages(most) ==
    {[og |-> o, twitter |-> t, imgs |-> l] :
        o \in {None, Some(PageImage), Some(RelativePageImage)},
        t \in {None, Some(TwitterImage)},
        l \in ImgLists(most)}

PageCalls(most) ==
    {[fn |-> "fetch_article_image", page |-> p] :
        p \in {None} \cup {Some(a) : a \in ArticlePages(most)}}

(***************************************************************************)
(* RSSService.process_article_content.  The entry is given by what the     *)
(* analysis measures: whether it has a content field, the words of that    *)
(* content's text, how many of them are made of characters _clean_text     *)
(* removes, the words of the summary, the Flesch score of the text, and    *)
(* whether a step of the analysis raises.                                  *)
(***************************************************************************)
\* The values the except branch returns
AnalysisDefaults == [word_count |-> 0, reading_time |-> 1, quality_score |-> 0]

process_article_content(entry) ==
    IF entry.raises THEN AnalysisDefaults
    ELSE LET word_count == IF entry.has_content
                           THEN entry.content_words - entry.symbols
                           ELSE entry.summary_words
             readability_score == IF word_count = 0 THEN 0 ELSE entry.readability
         IN  [word_count |-> word_count,
              reading_time |-> calculate_reading_time(~entry.has_content,
                                                      entry.content_words),
              quality_score |-> calculate_quality_score(word_count = 0, word_count,
                                                        readability_score)]

process_article_content_call ==
    /\ call # None
    /\ result = None
    /\ ValueOf(call).fn = "process_article_content"
    /\ result' = Some(Returned(process_article_content(ValueOf(call).entry)))
    /\ UNCHANGED <<store, curationVars, saves, session, feed, fetcher, fpc,
                   counters, corpus, summary, batchVars, call>>

DefaultQuality == 40000         \* 0.8, in the unit of QualityScale

\* processed_content.get(key, default)
GetOr(r, key, default) == IF key \in DOMAIN r THEN r[key] ELSE default

\* The article data fetch_rss_feeds builds from an entry and hands to
\* save_article
rest_article_data(entry) ==
    LET processed_content == process_article_content(entry)
    IN  [word_count |-> GetOr(processed_content, "word_count", 0),
         reading_time |-> GetOr(processed_content, "reading_time", None),
         quality_score |-> GetOr(processed_content, "quality_score", DefaultQuality)]

rest_article_data_call ==
    /\ call # None
    /\ result = None
    /\ ValueOf(call).fn = "rest_article_data"
    /\ result' = Some(Returned(rest_article_data(ValueOf(call).entry)))
    /\ UNCHANGED <<store, curationVars, saves, session, feed, fetcher, fpc,
                   counters, corpus, summary, batchVars, call>>

\* Text lengths on both sides of every multiple of the reading speed
TextLengths(longest) ==
    {n \in 0..longest : n % ReadingSpeed \in {0, ReadingSpeed - 1}}

AnalysisEntries(longest) ==
    {[has_content |-> TRUE, content_words |-> n, symbols |-> s,
      summary_words |-> m, readability |-> 60, raises |-> r] :
        n \in TextLengths(longest), s \in {0, 1}, m \in {0, 400}, r \in BOOLEAN}
    \cup {[has_content |-> FALSE, content_words |-> 0, symbols |-> 0,
           summary_words |-> m, readability |-> 60, raises |-> r] :
             m \in {0, 199, 400}, r \in BOOLEAN}

ProcessCalls(longest) ==
    {[fn |-> f, entry |-> e] :
        f \in {"process_article_content", "rest_article_data"},
        e \in {a \in AnalysisEntries(longest) : a.symbols <= a.content_words}}

(***************************************************************************)
(* RSSService.detect_content_type.  The markup is given by what            *)
(* BeautifulSoup finds in it: whether it is the empty string, whether it   *)
(* has a <video> or <iframe>, whether it has an <audio>, and how many      *)
(* <img>s; the title by whether its lower case contains one of the         *)
(* keywords.                                                               *)
(***************************************************************************)
GalleryImages == 3

detect_content_type(empty, has_video, has_audio, images, title_keyword) ==
    IF empty THEN "article"
    ELSE IF has_video THEN "video"
    ELSE IF has_audio \/ title_keyword THEN "podcast"
    ELSE IF images > GalleryImages THEN "gallery"
    ELSE "article"

detect_content_type_call ==
    /\ call # None
    /\ result = None
    /\ ValueOf(call).fn = "detect_content_type"
    /\ LET c == ValueOf(call)
       IN  result' = Some(Returned(detect_content_type(c.empty, c.has_video,
                              c.has_audio, c.images, c.title_keyword)))
    /\ UNCHANGED <<store, curationVars, saves, session, feed, fetcher, fpc,
                   counters, corpus, summary, batchVars, call>>

\* The empty markup has no element; any other markup has any of them
ContentTypeCalls(most) ==
    {[fn |-> "detect_content_type", empty |-> TRUE, has_video |-> FALSE,
      has_audio |-> FALSE, images |-> 0, title_keyword |-> k] : k \in BOOLEAN}
    \cup {[fn |-> "detect_content_type", empty |-> FALSE, has_video |-> v,
           has_audio |-> a, images |-> n, title_keyword |-> k] :
             v \in BOOLEAN, a \in BOOLEAN, n \in 0..most, k \in BOOLEAN}

InitAnalysis ==
    /\ \/ call \in {Some(c) : c \in FetchCalls}
       \/ call \in {Some(c) : c \in ImageCalls}
       \/ call \in {Some(c) : c \in ReadingCalls(MaxWords)}
       \/ call \in {Some(c) : c \in QualityCalls(MaxWordCount)}
       \/ call \in {Some(c) : c \in SimilarityCalls}
       \/ call \in {Some(c) : c \in DuplicateCalls}
       \/ call \in {Some(c) : c \in PageCalls(MaxImgs)}
       \/ call \in {Some(c) : c \in ProcessCalls(MaxWords)}
       \/ call \in {Some(c) : c \in ContentTypeCalls(MaxContentImgs)}
    /\ result = None
    /\ store = <<>>
    /\ InitFetchIdle
    /\ InitCurationIdle

NextAnalysis ==
    \/ fetch_rss_feed_call
    \/ extract_images_from_content_call
    \/ calculate_reading_time_call
    \/ calculate_quality_score_call
    \/ title_sim_call
    \/ calculate_similarity_call
    \/ detect_duplicates_call
    \/ fetch_article_image_call
    \/ process_article_content_call
    \/ rest_article_data_call
    \/ detect_content_type_call

SpecAnalysis == InitAnalysis /\ [][NextAnalysis]_vars

(***************************************************************************)
(* Properties of the Curated Batch (specification SpecCuration).           *)
(***************************************************************************)
Batch == curated_articles

BatchIds == {Batch[i].id : i \in DOMAIN Batch}

\* The stored article a batch item or response row was made from
Stored(item) == store[item.id]

Sources == {1, 2}

CountOfSource(rows, sid) == Cardinality({i \in DOMAIN rows : rows[i].rss_source_id = sid})

\* C1: the Curated Batch holds at most per_source_cap articles with the same
\* rss_source_id, for every store and every request.
C1_PerSourceCap ==
    pc = "done" =>
        \A sid \in Sources : CountOfSource(Batch, sid) <= request.per_source_cap

\* The store answered with more articles of one source than the cap allows,
\* and the batch holds exactly the cap of them
C1_Witness ==
    /\ pc = "done"
    /\ response.status = 200
    /\ \E sid \in Sources :
          /\ CountOfSource(articles, sid) > request.per_source_cap
          /\ CountOfSource(Batch, sid) = request.per_source_cap

HasImage(item) == Stored(item).image_url # None

\* published_at a is older than b; an article without a timestamp is older
\* than any with one
Older(a, b) == b # None /\ (a = None \/ ValueOf(a) < ValueOf(b))

PositionIn(rows, id) == CHOOSE i \in DOMAIN rows : rows[i].id = id

NothingMatchedResponses ==
    {[status |-> 200, success |-> TRUE, newsletter_id |-> n,
      included_articles |-> None] : n \in {None, Some(NewsletterId)}}

\* C5: when the store request fails during curation, the call returns an
\* empty batch with an explicit error marker, so that its caller can tell a
\* store failure from a curation in which no article matched.
C5_StoreFailureMarked ==
    (pc = "done" /\ store_failed) =>
        /\ Batch = <<>>
        /\ response \notin NothingMatchedResponses

\* The steps in the order the specification gives them, on the whole of the
\* passing pool: cap, dedup, rank, truncate to the limit, project
WholePoolBatches ==
    LET whole == QueryResults(store, [QueryParams(request) EXCEPT !.limit = Len(store)])
    IN  {LET capped == PerSourceCap(rows, request.per_source_cap)
             deduped == DedupeTitles(capped, request.dedupe_title_similarity)
             kept == Take(SortRanked(deduped), request.rss_limit)
         IN  [i \in DOMAIN kept |-> ProjectRow(kept[i], IncludeSet(request.include_fields))] :
         rows \in whole}

\* C6: the batch is the result of filter, cap, dedup, rank, truncate, project
\* applied in that order to the whole pool of passing articles: the limit
\* acts only after ranking.
C6_LimitAfterRanking ==
    (pc = "done" /\ request.use_rss /\ ~store_failed /\ response.status = 200) =>
        Batch \in WholePoolBatches

\* C7: the batch is never longer than rss_limit.
C7_LengthAtMostLimit ==
    pc = "done" => Len(Batch) <= request.rss_limit

\* More stored articles match the request than the limit allows, and the
\* batch is exactly rss_limit long
C7_Witness ==
    /\ pc = "done"
    /\ response.status = 200
    /\ Len(Batch) = request.rss_limit
    /\ Cardinality({i \in DOMAIN store : Matches(store[i], QueryParams(request))})
           > request.rss_limit

\* The filter of a request, as the specification words it, on a stored article
PassesFilter(a, req) ==
    /\ a.is_active
    /\ req.categories # {} => a.category \in req.categories
    /\ req.source_ids # {} => a.rss_source_id \in req.source_ids
    /\ a.quality_score >= req.min_quality
    /\ a.word_count >= req.min_word_count
    /\ req.require_image => a.image_url # None
    /\ req.since_days > 0 =>
           (a.published_at # None /\ ValueOf(a.published_at) >= Now - req.since_days)

Passing == {i \in DOMAIN store : PassesFilter(store[i], request)}

\* |A n B| / |A u B| >= threshold (hundredths) for the lowercase word sets
\* of two titles; the similarity of two titles without words is 0
JaccardAtLeast(t1, t2, threshold) ==
    LET A == WordSet(t1)
        B == WordSet(t2)
    IN  IF A \cup B = {} THEN 0 >= threshold
        ELSE Cardinality(A \cap B) * 100 >= threshold * Cardinality(A \cup B)

\* Neither the limit, nor the cap, nor the title dedup can drop one of the
\* passing articles
NothingElseDrops(passing) ==
    /\ Cardinality(passing) <= request.rss_limit
    /\ \A sid \in Sources :
          Cardinality({i \in passing : store[i].rss_source_id = sid})
              <= request.per_source_cap
    /\ \A i, j \in passing :
          i # j => ~JaccardAtLeast(store[i].title, store[j].title,
                                   request.dedupe_title_similarity)

Capped == PerSourceCap(articles, request.per_source_cap)

C10_Projection ==
    (pc = "done" /\ response.status = 200) =>
        \A i \in DOMAIN Batch :
            /\ AlwaysKept \subseteq DOMAIN Batch[i]
            /\ DOMAIN Batch[i] \subseteq AlwaysKept \cup Range(request.include_fields)

(***************************************************************************)
(* Properties of ingestion (specifications SpecSave and SpecFetch).        *)
(***************************************************************************)
SavedUrls == {Urls[1], Urls[2]}

SavesOf(url) == {i \in DOMAIN saves : saves[i].url = url}

ArticlesWith(url) == {i \in DOMAIN store : store[i].url = url}

\* The store answered the save: it created the article or found the conflict
Answered(save) == save.answer = Created \/ save.answer = Conflict

\* C3: saving one URL again and again is idempotent.  The store never holds
\* two articles with one URL; it holds exactly one for a URL once a save of
\* it was answered; a save answered with the unique-URL conflict reports
\* success; and every answer to a save that comes after an answered save of
\* the same URL is that conflict, reported as success.
C3_SaveIdempotent ==
    \A url \in SavedUrls :
        /\ Cardinality(ArticlesWith(url)) <= 1
        /\ (\E i \in SavesOf(url) : Answered(saves[i])) =>
               Cardinality(ArticlesWith(url)) = 1
        /\ \A i \in SavesOf(url) : saves[i].answer = Conflict => saves[i].returned
        /\ \A i, j \in SavesOf(url) :
               (i < j /\ Answered(saves[i]) /\ saves[j].answer # NoResponse
                      /\ saves[j].answer # ServerError) =>
                   (saves[j].answer = Conflict /\ saves[j].returned)

\* One URL saved into an empty store three times: created, then twice a
\* conflict reported as success, and one article for it
C3_Witness ==
    /\ corpus = <<>>
    /\ Len(saves) = 3
    /\ \A i \in DOMAIN saves : saves[i].url = Urls[1] /\ saves[i].returned
    /\ saves[1].answer = Created
    /\ saves[2].answer = Conflict
    /\ saves[3].answer = Conflict
    /\ Cardinality(ArticlesWith(Urls[1])) = 1

\* The feed of scenario 1: two entries with the identical URL, both handled
\* without an error
Scenario1Feed ==
    /\ feed.status = "success"
    /\ Len(feed.entries) = 2
    /\ feed.entries[1].link = feed.entries[2].link
    /\ ~feed.entries[1].bad
    /\ ~feed.entries[2].bad

\* C4: from an empty store, ingesting a feed of two entries with the
\* identical URL (every store request answered) ends with exactly one active
\* article in the store and a fetch summary whose duplicates_found is 1.
C4_Scenario1 ==
    (/\ fpc = "done"
     /\ corpus = <<>>
     /\ Scenario1Feed
     /\ \A i \in DOMAIN saves : Answered(saves[i])) =>
        /\ Cardinality({i \in DOMAIN store : store[i].is_active}) = 1
        /\ "duplicates_found" \in DOMAIN summary
        /\ summary.duplicates_found = 1

(***************************************************************************)
(* Properties of the batch fetch.                                          *)
(***************************************************************************)
ResultOf(t) == ValueOf(tasks[t].result)

Failed(t) == tasks[t].result # None /\ ResultOf(t).status = "error"

Succeeded(t) == tasks[t].result # None /\ ResultOf(t).status = "success"

\* The URLs of the entries of source t that can be processed
LinksOf(t) ==
    {feeds[t].entries[i].link :
        i \in {j \in DOMAIN feeds[t].entries : ~feeds[t].entries[j].bad}}

SharedLinks == LinksOf(1) \cap LinksOf(2)

\* Nothing but a URL shared with the other source can go wrong: both feeds
\* arrive, and no feed carries a URL twice
NoOtherFailure ==
    \A t \in BatchSources :
       /\ feeds[t].status = "success"
       /\ \A i, j \in DOMAIN feeds[t].entries :
              feeds[t].entries[i].link = feeds[t].entries[j].link => i = j

\* C11: when the two concurrently fetched sources each carry an entry with
\* the same URL, the batch ends with exactly one article of that URL in the
\* Article Store and with neither source's fetch reported as failed
C11_ConcurrentSameUrl ==
    (fetcher = "orm" /\ fpc = "done" /\ NoOtherFailure /\ SharedLinks # {})
    => /\ \A url \in SharedLinks : Cardinality(ArticlesWith(url)) = 1
       /\ \A t \in BatchSources : ~Failed(t)

\* Source t gives its own fetch no reason to fail: its feed arrives, no URL
\* comes twice in it, and none of its URLs is in the other source's feed
FetchesCleanly(t) ==
    /\ feeds[t].status = "success"
    /\ \A i, j \in DOMAIN feeds[t].entries :
           feeds[t].entries[i].link = feeds[t].entries[j].link => i = j
    /\ \A u \in BatchSources \ {t} : LinksOf(t) \cap LinksOf(u) = {}

\* C12: the failure of one source's fetch marks that source alone as failed;
\* the fetch of a sibling still ends with success and every article the
\* sibling added is in the Article Store
C12_FailureIsolated ==
    (fetcher = "orm" /\ fpc = "done")
    => \A t, sibling \in BatchSources :
          (t # sibling /\ Failed(t) /\ FetchesCleanly(sibling))
          => /\ Succeeded(sibling)
             /\ Range(tasks[sibling].added) \subseteq UrlsOf(store)

\* The entries of the errors list that report a source
SourceErrors(errors, t) ==
    {i \in DOMAIN errors : errors[i] = [kind |-> "source", source |-> t]}

RECURSIVE SumOfSucceeded(_, _)
SumOfSucceeded(sources, key) ==
    IF sources = {} THEN 0
    ELSE LET t == CHOOSE u \in sources : TRUE
         IN  (IF Succeeded(t) THEN ResultOf(t)[key] ELSE 0)
             + SumOfSucceeded(sources \ {t}, key)

\* C13: a batch in which a source failed and a source succeeded returns one
\* summary with success true, an errors list with exactly one entry for each
\* failed source and none for the others, and as article counts the sums of
\* the counts of the sources that succeeded
C13_PartialFailureAggregated ==
    (/\ fpc = "done"
     /\ \E t \in BatchSources : Failed(t)
     /\ \E t \in BatchSources : Succeeded(t))
    => /\ summary.success
       /\ summary.errors # <<>>
       /\ \A t \in BatchSources :
              Cardinality(SourceErrors(summary.errors, t)) = IF Failed(t) THEN 1 ELSE 0
       /\ summary.articles_fetched = SumOfSucceeded(BatchSources, "articles_fetched")
       /\ summary.articles_processed = SumOfSucceeded(BatchSources, "articles_processed")
       /\ summary.duplicates_found = SumOfSucceeded(BatchSources, "duplicates_found")

\* A batch returned after source 1 failed and source 2 stored an article
C13_Witness ==
    /\ fpc = "done"
    /\ Failed(1)
    /\ Succeeded(2)
    /\ summary.articles_processed > 0
    /\ Len(store) > Len(corpus)

(***************************************************************************)
(* Properties of the ingestion of one feed.                                *)
(***************************************************************************)
\* The URLs of the entries the fetch has processed and added so far.  The
\* store does not change before the commit, so what detect_duplicates saw
\* is the store the fetch found
AddedLinks ==
    {feed.entries[i].link :
        i \in {j \in DOMAIN feed.entries :
                  /\ j < counters.entry
                  /\ ~feed.entries[j].bad
                  /\ detect_duplicates(corpus, feed.entries[j].link,
                                       feed.entries[j].title) = None}}

\* C14: wherever fetch_and_process_source stops, by a crash between two
\* steps or by an error, the articles of the entries it has processed and
\* added are in the Article Store, but for at most one
C14_EntryDurable ==
    (fetcher = "orm" /\ fpc \in {"entries", "done"})
    => Cardinality(AddedLinks \ UrlsOf(store)) <= 1

\* Entry i can be stored: it is processed without an exception, its URL
\* comes once in the feed, and the duplicate detector of the ORM path lets
\* it through
WellFormed(i) ==
    /\ ~feed.entries[i].bad
    /\ \A j \in DOMAIN feed.entries :
           feed.entries[j].link = feed.entries[i].link => j = i
    /\ fetcher = "orm" =>
           detect_duplicates(corpus, feed.entries[i].link,
                             feed.entries[i].title) = None

\* The store did not answer the save of entry i (REST path)
OwnSaveFailed(i) ==
    \E k \in SavesOf(feed.entries[i].link) : ~Answered(saves[k])

\* C15: once the feed's fetch has ended, every well-formed entry whose own
\* save did not fail is in the Article Store, whatever the other entries of
\* the feed are and wherever they stand
C15_EntryIsolation ==
    fpc = "done"
    => \A i \in DOMAIN feed.entries :
          (feed.status = "success" /\ WellFormed(i) /\ ~OwnSaveFailed(i))
          => feed.entries[i].link \in UrlsOf(store)

(***************************************************************************)
(* Properties of the single-feed and single-article functions.             *)
(***************************************************************************)
Called(fn) == call # None /\ result # None /\ ValueOf(call).fn = fn

\* C16: fetch_rss_feed never raises; it returns status "error" with an error
\* text for a non-2xx response, a network error or timeout and a feed that
\* cannot be parsed, and status "success" only with the parsed entries
C16_FetchNeverRaises ==
    Called("fetch_rss_feed")
    => LET c == ValueOf(call)
           r == ValueOf(result)
       IN  /\ ~r.raised
           /\ (c.http # "ok" \/ c.document = "unparseable")
              => (r.value.status = "error" /\ r.value.error # None)
           /\ r.value.status = "success"
              => (c.http = "ok" /\ r.value.entries = Some(c.items))

\* The entry of scenario 4: no image in the feed's fields, no <img> in the
\* content, and an article page that cannot be reached
Scenario4(c) ==
    /\ c.rss_images = None
    /\ c.content \in {"empty", "no_img"}
    /\ c.article_url # "none"
    /\ c.page = "unreachable"

\* C17: extract_images_from_content never raises; for the entry of scenario
\* 4 it returns image_url, thumbnail_url and alt text all null; and where a
\* step fails the resolution goes on with the next step, so that an entry
\* whose content cannot be parsed still gets the image of its article page
C17_ResolutionNeverRaises ==
    Called("extract_images_from_content")
    => LET c == ValueOf(call)
           r == ValueOf(result)
       IN  /\ ~r.raised
           /\ Scenario4(c) => r.value = NoImages
           /\ (/\ c.rss_images = None
               /\ c.content = "rejected"
               /\ c.article_url = "valid"
               /\ c.page = "image")
              => r.value.image_url = Some(PageImage)

C19_QualityRange ==
    Called("calculate_quality_score")
    => /\ ValueOf(call).word_count = 0 => ValueOf(result).value = 0
       /\ ValueOf(result).value >= 0
       /\ ValueOf(result).value <= QualityScale

\* An article of no words and the best readability, with content that is
\* not empty, scored 0
C19_Witness ==
    /\ Called("calculate_quality_score")
    /\ ~ValueOf(call).empty
    /\ ValueOf(call).word_count = 0
    /\ ValueOf(call).readability >= 100
    /\ ValueOf(result).value = 0

\* A similarity of 1.0
IsOne(sim) == sim[1] = sim[2]

\* C20: both title similarities, title_sim of the curation and
\* _calculate_similarity of the ingestion, are symmetric, the similarity of A
\* and B being that of B and A, and reflexive, the similarity of every title
\* with itself being 1.0
C20_SymmetricReflexive ==
    (Called("title_sim") \/ Called("calculate_similarity"))
    => /\ ValueOf(result).value.forward = ValueOf(result).value.backward
       /\ IsOne(ValueOf(result).value.self)

(***************************************************************************)
(* Properties of the duplicate detection.                                  *)
(***************************************************************************)

\* The stored article detect_duplicates answered with, if any
MatchedRows ==
    LET c == ValueOf(call)
        v == ValueOf(result).value
    IN  IF v = None THEN {}
        ELSE {i \in DOMAIN c.rows : c.rows[i].id = ValueOf(v)}

\* C21: every id detect_duplicates returns is the id of an article whose
\* active flag is true, whether the match was on the URL or on the title.
C21_MatchesOnlyActive ==
    Called("detect_duplicates") =>
        \A i \in MatchedRows : ValueOf(call).rows[i].is_active

(***************************************************************************)
(* Properties of the image resolution.                                     *)
(***************************************************************************)

\* The image URL the feed's own fields bring, if any
HintImage(c) ==
    IF c.rss_images = None THEN None ELSE ValueOf(c.rss_images).image_url

\* The image URL the first <img> of the content gives, if any
InlineYield(c) ==
    IF c.content = "img_absolute" THEN Some(InlineImage)
    ELSE IF c.content = "img_relative" /\ c.article_url = "valid"
         THEN Some(JoinedImage)
    ELSE None

StepOrder == <<"feed", "inline", "page", "fallback">>

PositionOf(step) == CHOOSE i \in DOMAIN StepOrder : StepOrder[i] = step

InOrder(steps) ==
    \A i, j \in DOMAIN steps : i < j => PositionOf(steps[i]) < PositionOf(steps[j])

\* C22: the resolution enters its steps in the order feed hints, inline
\* markup, article page; an image URL of the hints is returned as it is and
\* ends the resolution; an image URL of the inline markup ends it before
\* the page; and the page is fetched only when neither the hints nor the
\* inline markup gave an image URL.
C22_FirstStepWins ==
    (Called("extract_images_from_content") /\ ~ValueOf(result).raised)
    => LET c == ValueOf(call)
           r == ValueOf(result)
           entered == Range(r.steps)
       IN  /\ InOrder(r.steps)
           /\ HintImage(c) # None
              => /\ r.value.image_url = HintImage(c)
                 /\ entered = {"feed"}
           /\ (HintImage(c) = None /\ InlineYield(c) # None)
              => /\ r.value.image_url = InlineYield(c)
                 /\ "page" \notin entered
           /\ "page" \in entered
              => (HintImage(c) = None /\ InlineYield(c) = None)

\* The hints bring a thumbnail only, the content has no <img>, and the
\* article page gives the image
C22_Witness ==
    /\ Called("extract_images_from_content")
    /\ ~ValueOf(result).raised
    /\ ValueOf(result).steps = <<"feed", "inline", "page">>
    /\ ValueOf(result).value.image_url = Some(PageImage)
    /\ ValueOf(call).rss_images # None

\* C23: every image_url and thumbnail_url the resolution returns is either
\* null or starts with "http", whichever step produced it.
C23_ImageUrlsAreHttp ==
    (Called("extract_images_from_content") /\ ~ValueOf(result).raised)
    => LET v == ValueOf(result).value
       IN  /\ v.image_url # None => startswith_http(ValueOf(v.image_url))
           /\ v.thumbnail_url # None => startswith_http(ValueOf(v.thumbnail_url))

(***************************************************************************)
(* Properties of the article page fallback.                                *)
(***************************************************************************)

\* The <img>s of a page that carry a usable src and a declared area above
\* the floor
AboveFloor(page) ==
    {i \in DOMAIN page.imgs : /\ is_valid_image_url(page.imgs[i].src)
                              /\ page.imgs[i].dims = "numeric"
                              /\ page.imgs[i].area > ImageFloor}

LargestAboveFloor(page) ==
    {i \in AboveFloor(page) :
        \A j \in AboveFloor(page) : page.imgs[j].area <= page.imgs[i].area}

\* C24: the page fallback returns the Open Graph image where the page has
\* one, else the Twitter card image, else the <img> with the largest
\* declared area among those above the floor, and nothing where the page
\* has none of the three.
C24_MetaImageBeforeImg ==
    (Called("fetch_article_image") /\ ValueOf(call).page # None)
    => LET page == ValueOf(ValueOf(call).page)
           v == ValueOf(result).value
       IN  IF page.og # None THEN v = page.og
           ELSE IF page.twitter # None THEN v = page.twitter
           ELSE IF AboveFloor(page) # {}
                THEN \E i \in LargestAboveFloor(page) : v = Some(page.imgs[i].src)
           ELSE v = None

(***************************************************************************)
(* Properties of the content analysis of one entry.                        *)
(***************************************************************************)

\* C25: the reading_time process_article_content reports for an article is
\* min(60, max(1, word_count div 200)) of the word_count it reports for the
\* same article.
C25_ReadingTimeOfWordCount ==
    Called("process_article_content")
    => LET v == ValueOf(result).value
       IN  v.reading_time = Min(MaxReadingTime, Max(1, v.word_count \div ReadingSpeed))

\* C27: when the analysis of an entry fails, the article data handed to
\* save_article carries the moderate default quality_score, not zero.
C27_FailedAnalysisGetsDefault ==
    (Called("rest_article_data") /\ ValueOf(call).entry.raises)
    => ValueOf(result).value.quality_score = DefaultQuality

\* C26: for every markup and title, the empty markup included,
\* detect_content_type answers "video" where the markup has a <video> or
\* <iframe>; else "podcast" where it has an <audio> or the title contains
\* a keyword; else "gallery" where it has more than 3 <img>s; else "article".
C26_ContentTypePrecedence ==
    Called("detect_content_type")
    => LET c == ValueOf(call)
       IN  ValueOf(result).value =
               IF c.has_video THEN "video"
               ELSE IF c.has_audio \/ c.title_keyword THEN "podcast"
               ELSE IF c.images > GalleryImages THEN "gallery"
               ELSE "article"

(***************************************************************************)
(* Properties of the fetch summary of the REST path.                       *)
(***************************************************************************)

\* The saves save_article reported as done (created, or the URL conflict),
\* and those it reported as failed
SavesReturning(ok) == {i \in DOMAIN saves : saves[i].returned = ok}

\* C28: in the summary of fetch_rss_feeds, articles_processed is the number
\* of entries whose save returned ok (created or conflict), and every entry
\* whose save failed is left out of it and adds an entry to errors.
C28_CountsWhatSucceeded ==
    (fetcher = "rest" /\ fpc = "done" /\ feed.status = "success")
    => /\ summary.articles_processed = Cardinality(SavesReturning(TRUE))
       /\ summary.errors >= Cardinality(SavesReturning(FALSE))

(***************************************************************************)
(* Properties of the handler with its store client (SpecNewsletter).       *)
(***************************************************************************)

\* The store holds an article that the request's query matches
StoreHasMatch ==
    \E rows \in QueryResults(store, QueryParams(request)) : rows # <<>>

\* C29: with use_rss, a store whose request did not fail and that holds an
\* article matching the request, generate_newsletter gets the rows of its
\* query and hands a non-empty Curated Batch to the Composer; the batch is
\* emptied only when the store request fails.
C29_EmptiedOnlyOnStoreFailure ==
    (pc = "done" /\ request.use_rss /\ ~store_failed /\ StoreHasMatch)
    => (articles # <<>> /\ Batch # <<>>)

\* The titles share no word; a title without a word shares none with any
SharesNoWord(t1, t2) == WordSet(t1) \cap WordSet(t2) = {}

\* C30: under every dedupe_title_similarity from 0.0 to 1.0, the title
\* dedup keeps an article whose title shares no word with the title of any
\* article accepted before it, an article with an empty title included.
C30_UnrelatedTitleKept ==
    (pc = "done" /\ request.use_rss /\ ~store_failed) =>
        LET capped == Capped
        IN  \A k \in DOMAIN capped :
                (\A j \in 1..(k - 1) :
                    capped[j].id \in BatchIds
                    => SharesNoWord(capped[j].title, capped[k].title))
                => capped[k].id \in BatchIds

====
